---- MODULE Spec2Model ----
(***************************************************************************)
(* Engine of the team icebreaker board game.  Variant B                    *)
(* (src/board_B/board_B_python/game.py): activity scoring, set and line    *)
(* bonuses, score-to-throw milestones and the 50-cell yut race with        *)
(* capture, checkpoint revert and finish detection.  Variant A             *)
(* (src/board_A/board_A_python/game.py): the scoring alone; its            *)
(* definitions carry the prefix A_.                                        *)
(*                                                                         *)
(* Conventions of the model:                                               *)
(*  - a team name is a sequence of one-character strings, so that          *)
(*    str.strip() is computed and not assumed;                             *)
(*  - a team id "team_<millis>_<rand>" is an opaque natural number; only   *)
(*    equality of ids is observable in the engine;                         *)
(*  - datetime.now() is a logical clock read off the log buffer (one tick  *)
(*    per logged event); the text of a log entry is display-only and is    *)
(*    not modelled;                                                        *)
(*  - a method of Game is an operator from the world w = [teams, logs,     *)
(*    finish_order, store] it is called in to the (ok, message) pair it    *)
(*    returns and the world it leaves; `store` is the content of           *)
(*    STORAGE_FILE; the action of the method applies it to the state;      *)
(*  - `result` keeps what the last call returned, the message reduced to   *)
(*    the data it is formatted from; `variant` is the program running.     *)
(***************************************************************************)
EXTENDS Integers, Sequences, FiniteSets, TLC

VARIABLES variant, teams, logs, finish_order, store, result

vars == <<variant, teams, logs, finish_order, store, result>>

---------------------------------------------------------------------------
(* Program constants *)

FINISH_POS == 50
CHECKPOINT_INTERVAL == 10
SCORE_PER_THROW == 40
BASE_POINTS == 10
TEAM_MEMBER_BONUS_POINTS == 20
TEAM_MEMBER_BONUS_START == 3
SET_BONUS_POINTS == 40
LINE_BONUS_POINTS == 25
LINE_THRESHOLD == 3
FINISH_BONUS == 50
CAPTURE_BONUS == 30
LOG_CAP == 150
A_LOG_CAP == 120

DIFFICULTY_POINTS == [easy |-> 10, medium |-> 20, hard |-> 30]

CATEGORIES == <<"talk", "teamplay", "help", "challenge">>

CategorySet == {CATEGORIES[k] : k \in 1..Len(CATEGORIES)}

YUT_OUTCOMES ==
  << [key |-> "do",     step |-> 1,  weight |-> 34, extra_throw |-> 0],
     [key |-> "gae",    step |-> 2,  weight |-> 26, extra_throw |-> 0],
     [key |-> "geol",   step |-> 3,  weight |-> 17, extra_throw |-> 0],
     [key |-> "yut",    step |-> 4,  weight |-> 11, extra_throw |-> 1],
     [key |-> "mo",     step |-> 5,  weight |-> 8,  extra_throw |-> 1],
     [key |-> "backdo", step |-> -1, weight |-> 4,  extra_throw |-> 0] >>

\* Optional[str] finished_at: None, or the (logical) time of the finish.
None == 0

---------------------------------------------------------------------------
(* Bounds of the model *)

\* scoring: record_activity is explored while fewer activities than this
\* have been recorded
MaxMissions == 6
\* race: the same
MaxRaceMissions == 2
\* race: throw_yut is explored while fewer events than this have been logged
\* since the last reset
MaxEvents == 13

---------------------------------------------------------------------------
(* Helpers *)

Max(a, b) == IF a >= b THEN a ELSE b
Min(a, b) == IF a <= b THEN a ELSE b

RECURSIVE lstrip(_)
lstrip(s) == IF s # <<>> /\ Head(s) = " " THEN lstrip(Tail(s)) ELSE s

RECURSIVE rstrip(_)
rstrip(s) ==
  IF s # <<>> /\ s[Len(s)] = " " THEN rstrip(SubSeq(s, 1, Len(s) - 1)) ELSE s

\* str.strip()
strip(s) == rstrip(lstrip(s))

\* datetime.now(): later than every entry already in the log.
Now(lg) == IF lg = <<>> THEN 1 ELSE lg[1].at + 1

\* Team(id=..., name=...) with the dataclass defaults and __post_init__
Team(id, name) ==
  [ id |-> id, name |-> name, score |-> 0, mission_count |-> 0,
    throw_chance |-> 0, throw_granted_by_score |-> 0, position |-> 0,
    finished_at |-> None,
    category_count |-> [c \in CategorySet |-> 0],
    set_bonus_taken |-> 0,
    line_bonus_taken |-> [c \in CategorySet |-> 0] ]

\* add_log that never discards an entry
add_log_uncapped(w) == [w EXCEPT !.logs = <<[at |-> Now(w.logs)]>> \o w.logs]

\* Game.add_log: insert at the front, keep the first LOG_CAP entries
add_log(w) ==
  LET ins == <<[at |-> Now(w.logs)]>> \o w.logs
  IN  [w EXCEPT !.logs = SubSeq(ins, 1, Min(Len(ins), LOG_CAP))]

\* Game.save: the snapshot written to STORAGE_FILE
save(w) ==
  [w EXCEPT !.store = [exists |-> TRUE, teams |-> w.teams, logs |-> w.logs,
                       finish_order |-> w.finish_order]]

\* what a method returns, and the world it leaves
Return(ok, msg, key, w) == [ok |-> ok, msg |-> msg, key |-> key, world |-> w]

\* Game._new_id: "team_<millis>_<randint>". Nothing compares it with the ids
\* in use: it is either an id no team has, or the id of an existing team.
FreshId(ts) == CHOOSE n \in 1..(Len(ts) + 1) : \A k \in 1..Len(ts) : ts[k].id # n

_new_id(ts) == {FreshId(ts)} \cup {ts[k].id : k \in 1..Len(ts)}

\* Game.find_team: index of the first team with that id, 0 for None
find_team(ts, team_id) ==
  IF \E k \in 1..Len(ts) : ts[k].id = team_id
  THEN CHOOSE k \in 1..Len(ts) :
         ts[k].id = team_id /\ \A j \in 1..(k - 1) : ts[j].id # team_id
  ELSE 0


\* add_team that looks for a duplicate of the name as typed
add_team_raw_duplicates(w, name_raw, id) ==
  LET name == strip(name_raw) IN
  IF name = <<>> THEN Return(FALSE, "empty_name", "-", w)
  ELSE IF \E k \in 1..Len(w.teams) : w.teams[k].name = name_raw
  THEN Return(FALSE, "duplicate_name", "-", w)
  ELSE Return(TRUE, "team_added", "-",
              save(add_log([w EXCEPT !.teams = Append(@, Team(id, name))])))

\* Game.add_team(name); id is the value _new_id returns
add_team(w, name_raw, id) ==
  LET name == strip(name_raw) IN
  IF name = <<>> THEN Return(FALSE, "empty_name", "-", w)
  ELSE IF \E k \in 1..Len(w.teams) : w.teams[k].name = name
  THEN Return(FALSE, "duplicate_name", "-", w)
  ELSE Return(TRUE, "team_added", "-",
              save(add_log([w EXCEPT !.teams = Append(@, Team(id, name))])))

---------------------------------------------------------------------------
(* Scoring *)

\* all(team.category_count[c] > 0 for c in CATEGORIES)
done_all(team) == \A c \in CategorySet : team.category_count[c] > 0

\* set_bonus without the latch: the bonus whenever the set is complete
set_bonus_unlatched(team) ==
  IF done_all(team)
  THEN [bonus |-> SET_BONUS_POINTS, team |-> [team EXCEPT !.set_bonus_taken = 1]]
  ELSE [bonus |-> 0, team |-> team]

\* compute_bonus, first part: the one-time set bonus
set_bonus(team) ==
  IF done_all(team) /\ team.set_bonus_taken = 0
  THEN [bonus |-> SET_BONUS_POINTS, team |-> [team EXCEPT !.set_bonus_taken = 1]]
  ELSE [bonus |-> 0, team |-> team]

\* line_bonus_step with the tier rounded up: a line after 2 activities
line_bonus_step_early(acc, c) ==
  LET ready == (acc.team.category_count[c] + 1) \div LINE_THRESHOLD
      taken == acc.team.line_bonus_taken[c]
  IN  IF ready > taken
      THEN [bonus |-> acc.bonus + (ready - taken) * LINE_BONUS_POINTS,
            team  |-> [acc.team EXCEPT !.line_bonus_taken[c] = ready]]
      ELSE acc

\* line_bonus_step that spends the activities of a line it pays for
line_bonus_step_spends(acc, c) ==
  LET ready == acc.team.category_count[c] \div LINE_THRESHOLD
  IN  IF ready > 0
      THEN [bonus |-> acc.bonus + ready * LINE_BONUS_POINTS,
            team  |-> [acc.team EXCEPT
                         !.category_count[c] = @ - ready * LINE_THRESHOLD]]
      ELSE acc

\* compute_bonus, one turn of the loop over CATEGORIES
line_bonus_step(acc, c) ==
  LET ready == acc.team.category_count[c] \div LINE_THRESHOLD
      taken == acc.team.line_bonus_taken[c]
  IN  IF ready > taken
      THEN [bonus |-> acc.bonus + (ready - taken) * LINE_BONUS_POINTS,
            team  |-> [acc.team EXCEPT !.line_bonus_taken[c] = ready]]
      ELSE acc

RECURSIVE line_bonus_loop(_, _)
line_bonus_loop(acc, k) ==
  IF k > Len(CATEGORIES) THEN acc
  ELSE line_bonus_loop(line_bonus_step(acc, CATEGORIES[k]), k + 1)

\* Game.compute_bonus: the bonus returned and the team as mutated
compute_bonus(team) == line_bonus_loop(set_bonus(team), 1)

\* Game.apply_score_throw_milestone: the gain returned and the team as mutated
apply_score_throw_milestone(team) ==
  LET eligible == team.score \div SCORE_PER_THROW IN
  IF eligible <= team.throw_granted_by_score
  THEN [gained |-> 0, team |-> team]
  ELSE [gained |-> eligible - team.throw_granted_by_score,
        team |-> [team EXCEPT
                    !.throw_granted_by_score = eligible,
                    !.throw_chance = @ + (eligible - team.throw_granted_by_score)]]

\* earned_points with the bonus counted from the participant after the
\* TEAM_MEMBER_BONUS_START-th
earned_points_late_bonus(difficulty, participant_count) ==
  LET extra_members == Max(0, participant_count - TEAM_MEMBER_BONUS_START)
      member_bonus == extra_members * TEAM_MEMBER_BONUS_POINTS
  IN  BASE_POINTS + DIFFICULTY_POINTS[difficulty] + member_bonus

\* earned = BASE_POINTS + DIFFICULTY_POINTS[difficulty] + member_bonus
earned_points(difficulty, participant_count) ==
  LET extra_members == Max(0, participant_count - (TEAM_MEMBER_BONUS_START - 1))
      member_bonus == extra_members * TEAM_MEMBER_BONUS_POINTS
  IN  BASE_POINTS + DIFFICULTY_POINTS[difficulty] + member_bonus

\* score_activity that counts the participants in the category
score_activity_counts_members(team, difficulty, category, participant_count) ==
  LET t1 == [team EXCEPT
               !.score = @ + earned_points(difficulty, participant_count),
               !.mission_count = @ + 1,
               !.category_count[category] = @ + participant_count]
      cb == compute_bonus(t1)
      t2 == IF cb.bonus > 0 THEN [cb.team EXCEPT !.score = @ + cb.bonus] ELSE cb.team
  IN  apply_score_throw_milestone(t2).team

\* Game.record_activity, the mutation of the team once the inputs are valid
score_activity(team, difficulty, category, participant_count) ==
  LET t1 == [team EXCEPT
               !.score = @ + earned_points(difficulty, participant_count),
               !.mission_count = @ + 1,
               !.category_count[category] = @ + 1]
      cb == compute_bonus(t1)
      t2 == IF cb.bonus > 0 THEN [cb.team EXCEPT !.score = @ + cb.bonus] ELSE cb.team
  IN  apply_score_throw_milestone(t2).team

\* record_activity with participant_count checked after the team is scored
record_activity_late_check(w, team_id, difficulty, category, participant_count) ==
  LET i == find_team(w.teams, team_id) IN
  IF i = 0 THEN Return(FALSE, "invalid_team", "-", w)
  ELSE IF difficulty \notin DOMAIN DIFFICULTY_POINTS
  THEN Return(FALSE, "invalid_difficulty", "-", w)
  ELSE IF category \notin CategorySet
  THEN Return(FALSE, "invalid_category", "-", w)
  ELSE
    LET w1 == [w EXCEPT !.teams[i] =
                 score_activity(@, difficulty, category, participant_count)]
    IN  IF participant_count < 1
        THEN Return(FALSE, "invalid_participant_count", "-", w1)
        ELSE Return(TRUE, "activity_recorded", "-", save(add_log(w1)))

\* record_activity with one category_count shared by all teams
record_activity_shared_counts(w, team_id, difficulty, category, participant_count) ==
  LET i == find_team(w.teams, team_id) IN
  IF i = 0 THEN Return(FALSE, "invalid_team", "-", w)
  ELSE IF difficulty \notin DOMAIN DIFFICULTY_POINTS
  THEN Return(FALSE, "invalid_difficulty", "-", w)
  ELSE IF category \notin CategorySet
  THEN Return(FALSE, "invalid_category", "-", w)
  ELSE IF participant_count < 1
  THEN Return(FALSE, "invalid_participant_count", "-", w)
  ELSE Return(TRUE, "activity_recorded", "-",
              save(add_log([w EXCEPT !.teams =
                 [k \in 1..Len(w.teams) |->
                    IF k = i
                    THEN score_activity(w.teams[k], difficulty, category,
                                        participant_count)
                    ELSE [w.teams[k] EXCEPT !.category_count[category] = @ + 1]]])))

\* Game.record_activity(team_id, difficulty, category, participant_count, title)
record_activity(w, team_id, difficulty, category, participant_count) ==
  LET i == find_team(w.teams, team_id) IN
  IF i = 0 THEN Return(FALSE, "invalid_team", "-", w)
  ELSE IF difficulty \notin DOMAIN DIFFICULTY_POINTS
  THEN Return(FALSE, "invalid_difficulty", "-", w)
  ELSE IF category \notin CategorySet
  THEN Return(FALSE, "invalid_category", "-", w)
  ELSE IF participant_count < 1
  THEN Return(FALSE, "invalid_participant_count", "-", w)
  ELSE Return(TRUE, "activity_recorded", "-",
              save(add_log([w EXCEPT !.teams[i] =
                 score_activity(@, difficulty, category, participant_count)])))

\* reset that leaves the arrival order in place
reset_keeps_finish_order(w) ==
  Return(TRUE, "reset", "-", save([w EXCEPT !.teams = <<>>, !.logs = <<>>]))

\* Game.reset
reset(w) ==
  Return(TRUE, "reset", "-",
         save([w EXCEPT !.teams = <<>>, !.logs = <<>>, !.finish_order = <<>>]))

\* A value of the snapshot that is not a Python int (null, a string, a
\* float): the ints of a snapshot are never negative.
NotInt == 0 - 1

\* isinstance(v, int)
is_int(v) == v # NotInt

\* raw.get(f, default)
field(raw, f, default) == IF f \in DOMAIN raw THEN raw[f] ELSE default

\* the keyword arguments Team(...) accepts, and those it requires
TeamFields == DOMAIN Team(0, <<>>)

TeamRequired == {"id", "name"}

\* Team(**raw) raises TypeError
team_raises(raw) == ~(DOMAIN raw \subseteq TeamFields /\ TeamRequired \subseteq DOMAIN raw)

\* Team(**raw): the fields of raw, the dataclass defaults for the others
team_of(raw) ==
  LET d == Team(raw.id, raw.name) IN
  [ id |-> raw.id, name |-> raw.name,
    score |-> field(raw, "score", d.score),
    mission_count |-> field(raw, "mission_count", d.mission_count),
    throw_chance |-> field(raw, "throw_chance", d.throw_chance),
    throw_granted_by_score |-> field(raw, "throw_granted_by_score", d.throw_granted_by_score),
    position |-> field(raw, "position", d.position),
    finished_at |-> field(raw, "finished_at", d.finished_at),
    category_count |-> field(raw, "category_count", d.category_count),
    set_bonus_taken |-> field(raw, "set_bonus_taken", d.set_bonus_taken),
    line_bonus_taken |-> field(raw, "line_bonus_taken", d.line_bonus_taken) ]

\* the body of the loop of Game.load: the team appended for raw
loaded_team(raw) ==
  LET team == team_of(raw) IN
  IF ~is_int(team.throw_granted_by_score)
  THEN [team EXCEPT !.throw_granted_by_score = team.score \div SCORE_PER_THROW]
  ELSE team

\* the loop of Game.load with the re-derivation also for a key that is absent
loaded_team_heals_missing(raw) ==
  LET team == team_of(raw) IN
  IF ~is_int(team.throw_granted_by_score) \/ "throw_granted_by_score" \notin DOMAIN raw
  THEN [team EXCEPT !.throw_granted_by_score = team.score \div SCORE_PER_THROW]
  ELSE team

\* LogEntry(**l) raises TypeError (the text of an entry is not modelled)
log_raises(l) == DOMAIN l # {"at"}

\* json.loads raises, or the payload is not an object
payload_raises(file) == "text" \in DOMAIN file

\* the number of teams Game.load appends before Team(**raw) raises
teams_before_raise(raws) ==
  IF \E k \in 1..Len(raws) : team_raises(raws[k])
  THEN (CHOOSE k \in 1..Len(raws) :
          team_raises(raws[k]) /\ \A j \in 1..(k - 1) : ~team_raises(raws[j])) - 1
  ELSE Len(raws)

\* Game(): cls()
Game(file) == [teams |-> <<>>, logs |-> <<>>, finish_order |-> <<>>, store |-> file]

\* Game.load that returns the game as built when the exception is raised
load_keeps_parsed(w) ==
  LET file == w.store IN
  IF ~file.exists \/ payload_raises(file) THEN Game(file)
  ELSE
    LET raws == field(file, "teams", <<>>)
        ls == field(file, "logs", <<>>)
        n == teams_before_raise(raws)
        ts == [k \in 1..n |-> loaded_team(raws[k])]
    IN  IF n < Len(raws) THEN [Game(file) EXCEPT !.teams = ts]
        ELSE IF \E k \in 1..Len(ls) : log_raises(ls[k])
        THEN [Game(file) EXCEPT !.teams = ts]
        ELSE [teams |-> ts, logs |-> ls,
              finish_order |-> field(file, "finish_order", <<>>), store |-> file]

\* Game.load: the Game returned, from the world whose store is STORAGE_FILE
load(w) ==
  LET file == w.store IN
  IF ~file.exists THEN Game(file)
  ELSE IF payload_raises(file) THEN Game(file)
  ELSE
    LET raws == field(file, "teams", <<>>)
        ls == field(file, "logs", <<>>)
    IN  IF \E k \in 1..Len(raws) : team_raises(raws[k]) THEN Game(file)
        ELSE IF \E k \in 1..Len(ls) : log_raises(ls[k]) THEN Game(file)
        ELSE [teams |-> [k \in 1..Len(raws) |-> loaded_team(raws[k])],
              logs |-> ls,
              finish_order |-> field(file, "finish_order", <<>>),
              store |-> file]

---------------------------------------------------------------------------
(* Race *)

RECURSIVE weight_upto(_)
\* acc after the first k turns of the loop of draw_yut
weight_upto(k) == IF k = 0 THEN 0 ELSE weight_upto(k - 1) + YUT_OUTCOMES[k].weight

total_weight == weight_upto(Len(YUT_OUTCOMES))

\* the outcome draw_yut returns when random.uniform gives r
outcome_for(r) ==
  IF \E k \in 1..Len(YUT_OUTCOMES) : r <= weight_upto(k)
  THEN YUT_OUTCOMES[CHOOSE k \in 1..Len(YUT_OUTCOMES) :
                      r <= weight_upto(k) /\ \A j \in 1..(k - 1) : r > weight_upto(j)]
  ELSE YUT_OUTCOMES[1]

\* Game.draw_yut: every outcome a draw r in [0, total_weight] can give
draw_yut == {outcome_for(r) : r \in 0..total_weight}

\* ensure_finish without the milestone conversion of the finish bonus
ensure_finish_no_milestone(w, i) ==
  LET team == w.teams[i] IN
  IF team.position >= FINISH_POS /\ team.finished_at = None
  THEN add_log([w EXCEPT
                  !.teams[i] = [team EXCEPT !.position = FINISH_POS,
                                            !.finished_at = Now(w.logs),
                                            !.score = @ + FINISH_BONUS],
                  !.finish_order = Append(@, team.id)])
  ELSE w

\* ensure_finish without the clamp of the position
ensure_finish_no_clamp(w, i) ==
  LET team == w.teams[i] IN
  IF team.position >= FINISH_POS /\ team.finished_at = None
  THEN LET t1 == [team EXCEPT !.finished_at = Now(w.logs),
                              !.score = @ + FINISH_BONUS]
       IN  add_log([w EXCEPT
                      !.teams[i] = apply_score_throw_milestone(t1).team,
                      !.finish_order = Append(@, team.id)])
  ELSE w

\* ensure_finish that takes a team on cell FINISH_POS as still racing
ensure_finish_past_the_post(w, i) ==
  LET team == w.teams[i] IN
  IF team.position > FINISH_POS /\ team.finished_at = None
  THEN LET t1 == [team EXCEPT !.position = FINISH_POS,
                              !.finished_at = Now(w.logs),
                              !.score = @ + FINISH_BONUS]
       IN  add_log([w EXCEPT
                      !.teams[i] = apply_score_throw_milestone(t1).team,
                      !.finish_order = Append(@, team.id)])
  ELSE w

\* Game.ensure_finish on teams[i]
ensure_finish(w, i) ==
  LET team == w.teams[i] IN
  IF team.position >= FINISH_POS /\ team.finished_at = None
  THEN LET t1 == [team EXCEPT !.position = FINISH_POS,
                              !.finished_at = Now(w.logs),
                              !.score = @ + FINISH_BONUS]
       IN  add_log([w EXCEPT
                      !.teams[i] = apply_score_throw_milestone(t1).team,
                      !.finish_order = Append(@, team.id)])
  ELSE w

\* the list `captured` of capture_opponents, as the set of its indexes
captured_by(ts, i) ==
  {k \in 1..Len(ts) : /\ ts[k].id # ts[i].id
                      /\ ts[k].finished_at = None
                      /\ ts[k].position = ts[i].position}

\* checkpoint that sends every captured team back to the start
checkpoint_origin(position) == 0

\* checkpoint strictly before the cell: a team on a checkpoint goes back ten
checkpoint_previous(position) ==
  ((Max(1, position) - 1) \div CHECKPOINT_INTERVAL) * CHECKPOINT_INTERVAL

\* checkpoint = (enemy.position // CHECKPOINT_INTERVAL) * CHECKPOINT_INTERVAL
checkpoint(position) == (position \div CHECKPOINT_INTERVAL) * CHECKPOINT_INTERVAL

RECURSIVE add_logs(_, _)
\* n calls of add_log
add_logs(w, n) == IF n = 0 THEN w ELSE add_logs(add_log(w), n - 1)

\* capture_opponents without the milestone conversion of the capture bonus
capture_opponents_no_milestone(w, i) ==
  LET actor == w.teams[i]
      captured == captured_by(w.teams, i)
      n == Cardinality(captured)
  IN  IF actor.position <= 0 \/ actor.position >= FINISH_POS THEN w
      ELSE IF captured = {} THEN w
      ELSE
        add_logs([w EXCEPT !.teams =
                    [k \in 1..Len(w.teams) |->
                       IF k = i
                       THEN [actor EXCEPT !.score = @ + CAPTURE_BONUS * n,
                                          !.throw_chance = @ + n]
                       ELSE IF k \in captured
                       THEN [w.teams[k] EXCEPT !.position = checkpoint(@)]
                       ELSE w.teams[k]]],
                 n + 1)

\* capture_opponents on every cell, the start and the finish included
capture_opponents_any_cell(w, i) ==
  LET actor == w.teams[i]
      captured == captured_by(w.teams, i)
      n == Cardinality(captured)
  IN  IF captured = {} THEN w
      ELSE
        LET a1 == [actor EXCEPT !.score = @ + CAPTURE_BONUS * n,
                                !.throw_chance = @ + n]
            a2 == apply_score_throw_milestone(a1).team
        IN  add_logs([w EXCEPT !.teams =
                        [k \in 1..Len(w.teams) |->
                           IF k = i THEN a2
                           ELSE IF k \in captured
                           THEN [w.teams[k] EXCEPT !.position = checkpoint(@)]
                           ELSE w.teams[k]]],
                     n + 1)

\* capture_opponents in which a captured team, back on its checkpoint, captures
\* the teams it finds there: the bonus and a throw chance for each
capture_opponents_chained(w, i) ==
  LET actor == w.teams[i]
      captured == captured_by(w.teams, i)
      n == Cardinality(captured)
      found(k) == {j \in 1..Len(w.teams) :
                     /\ j # k /\ j # i
                     /\ w.teams[j].finished_at = None
                     /\ w.teams[j].position = checkpoint(w.teams[k].position)}
  IN  IF actor.position <= 0 \/ actor.position >= FINISH_POS THEN w
      ELSE IF captured = {} THEN w
      ELSE
        LET a1 == [actor EXCEPT !.score = @ + CAPTURE_BONUS * n,
                                !.throw_chance = @ + n]
            a2 == apply_score_throw_milestone(a1).team
        IN  add_logs([w EXCEPT !.teams =
                        [k \in 1..Len(w.teams) |->
                           IF k = i THEN a2
                           ELSE IF k \in captured
                           THEN [w.teams[k] EXCEPT
                                   !.position = checkpoint(@),
                                   !.score = @ + CAPTURE_BONUS * Cardinality(found(k)),
                                   !.throw_chance = @ + Cardinality(found(k))]
                           ELSE w.teams[k]]],
                     n + 1)

\* Game.capture_opponents with actor = teams[i]
capture_opponents(w, i) ==
  LET actor == w.teams[i]
      captured == captured_by(w.teams, i)
      n == Cardinality(captured)
  IN  IF actor.position <= 0 \/ actor.position >= FINISH_POS THEN w
      ELSE IF captured = {} THEN w
      ELSE
        LET a1 == [actor EXCEPT !.score = @ + CAPTURE_BONUS * n,
                                !.throw_chance = @ + n]
            a2 == apply_score_throw_milestone(a1).team
        IN  add_logs([w EXCEPT !.teams =
                        [k \in 1..Len(w.teams) |->
                           IF k = i THEN a2
                           ELSE IF k \in captured
                           THEN [w.teams[k] EXCEPT !.position = checkpoint(@)]
                           ELSE w.teams[k]]],
                     n + 1)

\* throw without the floor of the position at 0
throw_no_floor(w, i, yut) ==
  LET w0 == [w EXCEPT !.teams[i].throw_chance = @ - 1,
                      !.teams[i].position = @ + yut.step]
      w1 == ensure_finish(w0, i)
      w2 == IF w1.teams[i].finished_at = None THEN capture_opponents(w1, i) ELSE w1
      w3 == IF yut.extra_throw > 0
            THEN [w2 EXCEPT !.teams[i].throw_chance = @ + yut.extra_throw]
            ELSE w2
  IN  save(add_log(w3))

\* throw that grants the extra throw only to a team still racing
throw_extra_unless_finished(w, i, yut) ==
  LET w0 == [w EXCEPT !.teams[i].throw_chance = @ - 1,
                      !.teams[i].position = Max(0, @ + yut.step)]
      w1 == ensure_finish(w0, i)
      w2 == IF w1.teams[i].finished_at = None THEN capture_opponents(w1, i) ELSE w1
      w3 == IF yut.extra_throw > 0 /\ w2.teams[i].finished_at = None
            THEN [w2 EXCEPT !.teams[i].throw_chance = @ + yut.extra_throw]
            ELSE w2
  IN  save(add_log(w3))

\* throw that spends two chances
throw_spends_two(w, i, yut) ==
  LET w0 == [w EXCEPT !.teams[i].throw_chance = @ - 2,
                      !.teams[i].position = Max(0, @ + yut.step)]
      w1 == ensure_finish(w0, i)
      w2 == IF w1.teams[i].finished_at = None THEN capture_opponents(w1, i) ELSE w1
      w3 == IF yut.extra_throw > 0
            THEN [w2 EXCEPT !.teams[i].throw_chance = @ + yut.extra_throw]
            ELSE w2
  IN  save(add_log(w3))

\* throw that writes the snapshot before it logs the throw
throw_saves_early(w, i, yut) ==
  LET w0 == [w EXCEPT !.teams[i].throw_chance = @ - 1,
                      !.teams[i].position = Max(0, @ + yut.step)]
      w1 == ensure_finish(w0, i)
      w2 == IF w1.teams[i].finished_at = None THEN capture_opponents(w1, i) ELSE w1
      w3 == IF yut.extra_throw > 0
            THEN [w2 EXCEPT !.teams[i].throw_chance = @ + yut.extra_throw]
            ELSE w2
  IN  add_log(save(w3))

\* Game.throw_yut past its validation: teams[i] moves by the outcome yut
throw(w, i, yut) ==
  LET w0 == [w EXCEPT !.teams[i].throw_chance = @ - 1,
                      !.teams[i].position = Max(0, @ + yut.step)]
      w1 == ensure_finish(w0, i)
      w2 == IF w1.teams[i].finished_at = None THEN capture_opponents(w1, i) ELSE w1
      w3 == IF yut.extra_throw > 0
            THEN [w2 EXCEPT !.teams[i].throw_chance = @ + yut.extra_throw]
            ELSE w2
  IN  save(add_log(w3))

\* throw_yut that lets a team without throw chances throw
throw_yut_no_chance_check(w, team_id, yut) ==
  LET i == find_team(w.teams, team_id) IN
  IF i = 0 THEN Return(FALSE, "invalid_team", "-", w)
  ELSE IF w.teams[i].finished_at # None THEN Return(FALSE, "already_finished", "-", w)
  ELSE IF w.teams[i].throw_chance < 0 THEN Return(FALSE, "no_throw_chance", "-", w)
  ELSE Return(TRUE, "thrown", yut.key, throw(w, i, yut))

\* throw_yut that lets a finished team throw
throw_yut_no_finished_check(w, team_id, yut) ==
  LET i == find_team(w.teams, team_id) IN
  IF i = 0 THEN Return(FALSE, "invalid_team", "-", w)
  ELSE IF w.teams[i].throw_chance <= 0 THEN Return(FALSE, "no_throw_chance", "-", w)
  ELSE Return(TRUE, "thrown", yut.key, throw(w, i, yut))

\* Game.throw_yut(team_id); yut is the outcome draw_yut returns, drawn once the
\* call is validated
throw_yut(w, team_id, yut) ==
  LET i == find_team(w.teams, team_id) IN
  IF i = 0 THEN Return(FALSE, "invalid_team", "-", w)
  ELSE IF w.teams[i].finished_at # None THEN Return(FALSE, "already_finished", "-", w)
  ELSE IF w.teams[i].throw_chance <= 0 THEN Return(FALSE, "no_throw_chance", "-", w)
  ELSE Return(TRUE, "thrown", yut.key, throw(w, i, yut))

\* finish_rank of an id that is not in finish_order
NO_FINISH_RANK == 1000000000

\* self.finish_order.index(team_id): position of the first occurrence, from 0
index_of(seq, x) ==
  (CHOOSE k \in 1..Len(seq) : seq[k] = x /\ \A j \in 1..(k - 1) : seq[j] # x) - 1

\* sort_key(team) of sorted_teams
sort_key(w, team) ==
  LET finish_rank == IF \E k \in 1..Len(w.finish_order) : w.finish_order[k] = team.id
                     THEN index_of(w.finish_order, team.id)
                     ELSE NO_FINISH_RANK
  IN  <<finish_rank, 0 - team.score, 0 - team.position, 0 - team.mission_count>>

\* a < b for tuples of 4 integers, as Python compares tuples
tuple_less(a, b) ==
  \E k \in 1..4 : a[k] < b[k] /\ \A j \in 1..(k - 1) : a[j] = b[j]

\* sorted() is stable: x goes before the first element whose key is greater
sorted_insert(w, out, x) ==
  IF \E k \in 1..Len(out) : tuple_less(sort_key(w, x), sort_key(w, out[k]))
  THEN LET k == CHOOSE k \in 1..Len(out) :
                  /\ tuple_less(sort_key(w, x), sort_key(w, out[k]))
                  /\ \A j \in 1..(k - 1) :
                       ~tuple_less(sort_key(w, x), sort_key(w, out[j]))
       IN  SubSeq(out, 1, k - 1) \o <<x>> \o SubSeq(out, k, Len(out))
  ELSE Append(out, x)

RECURSIVE sorted_upto(_, _)
\* sorted(self.teams[:k], key=sort_key)
sorted_upto(w, k) ==
  IF k = 0 THEN <<>> ELSE sorted_insert(w, sorted_upto(w, k - 1), w.teams[k])

\* Game.sorted_teams: the list returned
sorted_teams(w) == sorted_upto(w, Len(w.teams))

\* Game.print_logs(n): the entries shown, self.logs[:n]
print_logs(w, n) == SubSeq(w.logs, 1, Min(Len(w.logs), n))

---------------------------------------------------------------------------
(* Variant A: src/board_A/board_A_python/game.py *)

\* Team(id=..., name=...) of variant A
A_Team(id, name) ==
  [ id |-> id, name |-> name, score |-> 0, mission_count |-> 0,
    category_count |-> [c \in CategorySet |-> 0],
    set_bonus_taken |-> 0,
    line_bonus_taken |-> [c \in CategorySet |-> 0] ]

\* Game.add_log of variant A
A_add_log(w) ==
  LET ins == <<[at |-> Now(w.logs)]>> \o w.logs
  IN  [w EXCEPT !.logs = SubSeq(ins, 1, Min(Len(ins), A_LOG_CAP))]

\* Game.save of variant A: teams and logs
A_save(w) ==
  [w EXCEPT !.store = [exists |-> TRUE, teams |-> w.teams, logs |-> w.logs]]

\* Game._new_id of variant A
A_new_id(ts) == {FreshId(ts)} \cup {ts[k].id : k \in 1..Len(ts)}

\* Game.find_team of variant A
A_find_team(ts, team_id) ==
  IF \E k \in 1..Len(ts) : ts[k].id = team_id
  THEN CHOOSE k \in 1..Len(ts) :
         ts[k].id = team_id /\ \A j \in 1..(k - 1) : ts[j].id # team_id
  ELSE 0

\* Game.add_team of variant A
A_add_team(w, name_raw, id) ==
  LET name == strip(name_raw) IN
  IF name = <<>> THEN Return(FALSE, "empty_name", "-", w)
  ELSE IF \E k \in 1..Len(w.teams) : w.teams[k].name = name
  THEN Return(FALSE, "duplicate_name", "-", w)
  ELSE Return(TRUE, "team_added", "-",
              A_save(A_add_log([w EXCEPT !.teams = Append(@, A_Team(id, name))])))

\* the set bonus paid without a note of it
A_set_bonus_not_noted(team) ==
  LET all_done == \A c \in CategorySet : team.category_count[c] > 0 IN
  IF all_done /\ team.set_bonus_taken = 0
  THEN [bonus |-> SET_BONUS_POINTS, team |-> team]
  ELSE [bonus |-> 0, team |-> team]

\* compute_bonus of variant A, first part
A_set_bonus(team) ==
  LET all_done == \A c \in CategorySet : team.category_count[c] > 0 IN
  IF all_done /\ team.set_bonus_taken = 0
  THEN [bonus |-> SET_BONUS_POINTS, team |-> [team EXCEPT !.set_bonus_taken = 1]]
  ELSE [bonus |-> 0, team |-> team]

\* compute_bonus of variant A, one turn of the loop
A_line_bonus_step(acc, cat) ==
  LET ready == acc.team.category_count[cat] \div LINE_THRESHOLD
      taken == acc.team.line_bonus_taken[cat]
  IN  IF ready > taken
      THEN [bonus |-> acc.bonus + (ready - taken) * LINE_BONUS_POINTS,
            team  |-> [acc.team EXCEPT !.line_bonus_taken[cat] = ready]]
      ELSE acc

RECURSIVE A_line_bonus_loop(_, _)
A_line_bonus_loop(acc, k) ==
  IF k > Len(CATEGORIES) THEN acc
  ELSE A_line_bonus_loop(A_line_bonus_step(acc, CATEGORIES[k]), k + 1)

\* Game.compute_bonus of variant A
A_compute_bonus(team) == A_line_bonus_loop(A_set_bonus(team), 1)

\* earned without the bonus for the members
A_earned_points_flat(difficulty, participant_count) ==
  BASE_POINTS + DIFFICULTY_POINTS[difficulty]

\* earned of variant A
A_earned_points(difficulty, participant_count) ==
  LET extra_members == Max(0, participant_count - (TEAM_MEMBER_BONUS_START - 1))
      member_bonus == extra_members * TEAM_MEMBER_BONUS_POINTS
  IN  BASE_POINTS + DIFFICULTY_POINTS[difficulty] + member_bonus

\* Game.record_activity of variant A, the mutation of the team
A_score_activity(team, difficulty, category, participant_count) ==
  LET t1 == [team EXCEPT
               !.score = @ + A_earned_points(difficulty, participant_count),
               !.mission_count = @ + 1,
               !.category_count[category] = @ + 1]
      cb == A_compute_bonus(t1)
  IN  IF cb.bonus > 0 THEN [cb.team EXCEPT !.score = @ + cb.bonus] ELSE cb.team

\* Game.record_activity of variant A
A_record_activity(w, team_id, difficulty, category, participant_count) ==
  LET i == A_find_team(w.teams, team_id) IN
  IF i = 0 THEN Return(FALSE, "invalid_team", "-", w)
  ELSE IF difficulty \notin DOMAIN DIFFICULTY_POINTS
  THEN Return(FALSE, "invalid_difficulty", "-", w)
  ELSE IF category \notin CategorySet
  THEN Return(FALSE, "invalid_category", "-", w)
  ELSE IF participant_count < 1
  THEN Return(FALSE, "invalid_participant_count", "-", w)
  ELSE Return(TRUE, "activity_recorded", "-",
              A_save(A_add_log([w EXCEPT !.teams[i] =
                 A_score_activity(@, difficulty, category, participant_count)])))

\* Game.reset of variant A
A_reset(w) == Return(TRUE, "reset", "-", A_save([w EXCEPT !.teams = <<>>, !.logs = <<>>]))

\* the keyword arguments Team(...) of variant A accepts
A_TeamFields == DOMAIN A_Team(0, <<>>)

\* Team(**item) of variant A raises TypeError
A_team_raises(raw) ==
  ~(DOMAIN raw \subseteq A_TeamFields /\ TeamRequired \subseteq DOMAIN raw)

\* Team(**item) of variant A
A_team_of(raw) ==
  LET d == A_Team(raw.id, raw.name) IN
  [ id |-> raw.id, name |-> raw.name,
    score |-> field(raw, "score", d.score),
    mission_count |-> field(raw, "mission_count", d.mission_count),
    category_count |-> field(raw, "category_count", d.category_count),
    set_bonus_taken |-> field(raw, "set_bonus_taken", d.set_bonus_taken),
    line_bonus_taken |-> field(raw, "line_bonus_taken", d.line_bonus_taken) ]

\* Game.load of variant A
A_load(w) ==
  LET file == w.store
      fresh == [teams |-> <<>>, logs |-> <<>>, finish_order |-> <<>>, store |-> file]
  IN
  IF ~file.exists THEN fresh
  ELSE IF payload_raises(file) THEN fresh
  ELSE
    LET raws == field(file, "teams", <<>>)
        ls == field(file, "logs", <<>>)
    IN  IF \E k \in 1..Len(raws) : A_team_raises(raws[k]) THEN fresh
        ELSE IF \E k \in 1..Len(ls) : log_raises(ls[k]) THEN fresh
        ELSE [teams |-> [k \in 1..Len(raws) |-> A_team_of(raws[k])],
              logs |-> ls, finish_order |-> <<>>, store |-> file]

\* ord() of the characters the names are written with
ord(c) == CASE c = " " -> 32 [] c = "A" -> 65 [] c = "B" -> 66
            [] c = "C" -> 67 [] c = "Z" -> 90

\* a < b for str, as Python compares them
str_less(a, b) ==
  \/ \E k \in 1..Min(Len(a), Len(b)) :
       ord(a[k]) < ord(b[k]) /\ \A j \in 1..(k - 1) : a[j] = b[j]
  \/ Len(a) < Len(b) /\ \A j \in 1..Len(a) : a[j] = b[j]

\* a key that leaves the name out
A_sort_key_no_name(t) == <<0 - t.score, 0 - t.mission_count, <<>>>>

\* the key of sorted_teams of variant A: (-t.score, -t.mission_count, t.name)
A_sort_key(t) == <<0 - t.score, 0 - t.mission_count, t.name>>

\* a < b for these keys
A_key_less(a, b) ==
  \/ a[1] < b[1]
  \/ a[1] = b[1] /\ a[2] < b[2]
  \/ a[1] = b[1] /\ a[2] = b[2] /\ str_less(a[3], b[3])

\* sorted() is stable: x goes before the first element whose key is greater
A_sorted_insert(out, x) ==
  IF \E k \in 1..Len(out) : A_key_less(A_sort_key(x), A_sort_key(out[k]))
  THEN LET k == CHOOSE k \in 1..Len(out) :
                  /\ A_key_less(A_sort_key(x), A_sort_key(out[k]))
                  /\ \A j \in 1..(k - 1) :
                       ~A_key_less(A_sort_key(x), A_sort_key(out[j]))
       IN  SubSeq(out, 1, k - 1) \o <<x>> \o SubSeq(out, k, Len(out))
  ELSE Append(out, x)

RECURSIVE A_sorted_upto(_, _)
\* sorted(self.teams[:k], key=...)
A_sorted_upto(w, k) ==
  IF k = 0 THEN <<>> ELSE A_sorted_insert(A_sorted_upto(w, k - 1), w.teams[k])

\* Game.sorted_teams of variant A
A_sorted_teams(w) == A_sorted_upto(w, Len(w.teams))

\* refresh_logs of the window of variant A: the entries shown, logs[:120]
A_refresh_logs(w) == SubSeq(w.logs, 1, Min(Len(w.logs), A_LOG_CAP))

---------------------------------------------------------------------------
(* State machine *)

\* the Game object and STORAGE_FILE
World == [teams |-> teams, logs |-> logs, finish_order |-> finish_order, store |-> store]

NoStore == [exists |-> FALSE]

\* Game() of variant B, no snapshot written yet
Init ==
  /\ variant = "B"
  /\ teams = <<>>
  /\ logs = <<>>
  /\ finish_order = <<>>
  /\ store = NoStore
  /\ result = [op |-> "init", ok |-> TRUE, msg |-> "init", key |-> "-"]

\* Game() of either variant
InitScore ==
  /\ variant \in {"A", "B"}
  /\ teams = <<>>
  /\ logs = <<>>
  /\ finish_order = <<>>
  /\ store = NoStore
  /\ result = [op |-> "init", ok |-> TRUE, msg |-> "init", key |-> "-"]

\* the call op returned r
Returned(op, r) ==
  /\ teams' = r.world.teams
  /\ logs' = r.world.logs
  /\ finish_order' = r.world.finish_order
  /\ store' = r.world.store
  /\ result' = [op |-> op, ok |-> r.ok, msg |-> r.msg, key |-> r.key]
  /\ UNCHANGED variant

AddTeam(name, id) ==
  /\ variant = "B"
  /\ Returned("add_team", add_team(World, name, id))

RecordActivity(team_id, difficulty, category, participant_count) ==
  /\ variant = "B"
  /\ Returned("record_activity",
              record_activity(World, team_id, difficulty, category, participant_count))

ThrowYut(team_id) ==
  /\ variant = "B"
  /\ \E yut \in draw_yut : Returned("throw_yut", throw_yut(World, team_id, yut))

Reset ==
  /\ variant = "B"
  /\ Returned("reset", reset(World))

A_AddTeam(name, id) ==
  /\ variant = "A"
  /\ Returned("add_team", A_add_team(World, name, id))

A_RecordActivity(team_id, difficulty, category, participant_count) ==
  /\ variant = "A"
  /\ Returned("record_activity",
              A_record_activity(World, team_id, difficulty, category, participant_count))

A_Reset ==
  /\ variant = "A"
  /\ Returned("reset", A_reset(World))

\* main: the program is started, game = Game.load()
Load ==
  /\ variant = "B"
  /\ Returned("load", Return(TRUE, "loaded", "-", load(World)))

A_Load ==
  /\ variant = "A"
  /\ Returned("load", Return(TRUE, "loaded", "-", A_load(World)))

---------------------------------------------------------------------------
(* Inputs and specifications *)

\* ids the callers pass: those of the teams, and one no team has
UnknownId == 0

TeamIds == {teams[k].id : k \in 1..Len(teams)} \cup {UnknownId}

RECURSIVE missions_upto(_)
missions_upto(k) == IF k = 0 THEN 0 ELSE missions_upto(k - 1) + teams[k].mission_count

\* fewer than cap activities recorded, all teams together
TotalMissionsBelow(cap) == missions_upto(Len(teams)) < cap

\* fewer than cap events logged since the last reset
EventsBelow(cap) == Now(logs) <= cap

\* The names given to add_team in the race: names are opaque to the engine,
\* which only compares them, so the k-th team registered is called
\* RaceNames[k] (SpecScore registers padded and duplicate names).
RaceNames == << <<"A">>, <<"B">> >>

RaceNameInputs == {RaceNames[k] : k \in {Len(teams) + 1} \cap (1..Len(RaceNames))}

\* <<difficulty, category, participant_count>>: the activity worth exactly
\* SCORE_PER_THROW points
RaceActivities == {<<"hard", "talk", 1>>}

\* The race: every operation of variant B, activities on a narrow input set
Next ==
  \/ \E name \in RaceNameInputs : \E id \in _new_id(teams) : AddTeam(name, id)
  \/ \E team_id \in TeamIds \ {UnknownId}, a \in RaceActivities :
       /\ TotalMissionsBelow(MaxRaceMissions)
       /\ RecordActivity(team_id, a[1], a[2], a[3])
  \/ \E team_id \in TeamIds :
       /\ EventsBelow(MaxEvents)
       /\ ThrowYut(team_id)
  \/ Reset

Spec == Init /\ [][Next]_vars

\* The names given to add_team in the scoring specification, as typed:
\* plain and padded
ScoreNames == {<<"A">>, <<" ", "A", " ">>}

ScoreDifficulties == {"easy", "medium", "hard"}
ScoreParticipants == {3}

\* <<difficulty, category, participant_count>>: every valid combination, and
\* an invalid one
ScoreActivities ==
  (ScoreDifficulties \X CategorySet \X ScoreParticipants) \cup {<<"hard", "rest", 0>>}

\* Scoring: add_team, record_activity and reset of both variants on every input
NextScore ==
  \/ \E name \in ScoreNames : \E id \in _new_id(teams) : AddTeam(name, id)
  \/ \E team_id \in TeamIds, a \in ScoreActivities :
       /\ TotalMissionsBelow(MaxMissions)
       /\ RecordActivity(team_id, a[1], a[2], a[3])
  \/ Reset
  \/ \E name \in ScoreNames : \E id \in A_new_id(teams) : A_AddTeam(name, id)
  \/ \E team_id \in TeamIds, a \in ScoreActivities :
       /\ TotalMissionsBelow(MaxMissions)
       /\ A_RecordActivity(team_id, a[1], a[2], a[3])
  \/ A_Reset

SpecScore == InitScore /\ [][NextScore]_vars

---------------------------------------------------------------------------
(* Games in progress.  A board is the world a fixed list of calls leaves,   *)
(* computed from Game() by the methods themselves, so that the late game    *)
(* (shared cells, a team next to the finish) is explored without the        *)
(* opening that leads to it.                                                *)

\* race: events explored after a board's last event
MaxBoardEvents == 6
\* race: activities recorded after a board's last activity
MaxBoardMissions == 1

\* the outcome of YUT_OUTCOMES with that key
outcome(key) ==
  YUT_OUTCOMES[CHOOSE k \in 1..Len(YUT_OUTCOMES) : YUT_OUTCOMES[k].key = key]

\* calls of a script; `team` is the rank of the team in registration order
CallAdd(name) == [op |-> "add_team", name |-> name]
CallActivity(team) == [op |-> "record_activity", team |-> team]
CallThrow(team, key) == [op |-> "throw_yut", team |-> team, key |-> key]

\* the world one call of a script leaves: add_team with an unused id, the
\* activity worth SCORE_PER_THROW points, throw_yut drawing the outcome named
played(w, call) ==
  IF call.op = "add_team"
  THEN add_team(w, call.name, FreshId(w.teams)).world
  ELSE IF call.op = "record_activity"
  THEN record_activity(w, w.teams[call.team].id, "hard", "talk", 1).world
  ELSE throw_yut(w, w.teams[call.team].id, outcome(call.key)).world

RECURSIVE replay_span(_, _, _, _)
\* the world the calls script[lo..hi] leave, from w: the first half, then the
\* second half from the world the first half leaves
replay_span(w, script, lo, hi) ==
  IF lo > hi THEN w
  ELSE IF lo = hi THEN played(w, script[lo])
  ELSE LET mid == (lo + hi) \div 2
       IN  CHOOSE v \in {replay_span(w0, script, mid + 1, hi) :
                           w0 \in {replay_span(w, script, lo, mid)}} : TRUE

\* the world the first k calls of script leave, from w
replay(w, script, k) == replay_span(w, script, 1, k)

\* Game() before any call
NewGame == [teams |-> <<>>, logs |-> <<>>, finish_order |-> <<>>,
            store |-> [exists |-> FALSE]]

\* Three teams on neighbouring cells: B walks to cell 11, A to cell 10, and
\* C, which has captured A on cell 10, holds the only throw chance.
CaptureScript ==
  << CallAdd(<<"A">>), CallAdd(<<"B">>), CallAdd(<<"C">>),
     CallActivity(1), CallActivity(2), CallActivity(3),
     CallThrow(2, "mo"), CallThrow(2, "mo"), CallThrow(2, "do"),
     CallThrow(1, "mo"), CallThrow(1, "yut"), CallThrow(1, "do"),
     CallThrow(3, "yut"), CallThrow(3, "yut"), CallThrow(3, "gae") >>

\* A stands on cell 47 with a throw chance, B on cell 1 without one, and C
\* has never played.
FinishScript ==
  << CallAdd(<<"A">>), CallAdd(<<"B">>), CallAdd(<<"C">>),
     CallActivity(1), CallActivity(1), CallActivity(2),
     CallThrow(1, "mo"), CallThrow(1, "mo"), CallThrow(1, "mo"),
     CallThrow(1, "mo"), CallThrow(1, "mo"), CallThrow(1, "mo"),
     CallThrow(1, "mo"), CallThrow(1, "mo"), CallThrow(1, "mo"),
     CallThrow(1, "gae"), CallThrow(2, "do") >>

Boards ==
  { replay(NewGame, CaptureScript, Len(CaptureScript)),
    replay(NewGame, FinishScript, Len(FinishScript)) }

\* the times of the last event of the shortest and of the longest script
BoardTimes == {Now(b.logs) - 1 : b \in Boards}

BoardFirst == CHOOSE n \in BoardTimes : \A m \in BoardTimes : n <= m

BoardLast == CHOOSE n \in BoardTimes : \A m \in BoardTimes : m <= n

RECURSIVE missions_of(_, _)
\* activities recorded by the first k teams of ts
missions_of(ts, k) ==
  IF k = 0 THEN 0 ELSE missions_of(ts, k - 1) + ts[k].mission_count

\* the most activities a board has on record
BoardMissions ==
  CHOOSE n \in {missions_of(b.teams, Len(b.teams)) : b \in Boards} :
    \A b \in Boards : missions_of(b.teams, Len(b.teams)) <= n

\* the game is one of the boards, at most cap events later (a reset ends it)
OnBoard(cap) == Now(logs) > BoardFirst /\ Now(logs) <= BoardLast + cap

\* a game of variant B in progress
InitBoard ==
  /\ variant = "B"
  /\ \E b \in Boards :
       /\ teams = b.teams
       /\ logs = b.logs
       /\ finish_order = b.finish_order
       /\ store = b.store
  /\ result = [op |-> "init", ok |-> TRUE, msg |-> "init", key |-> "-"]

\* The late race: the teams are registered; record_activity, throw_yut and
\* reset from a board
NextBoard ==
  \/ \E team_id \in TeamIds \ {UnknownId}, a \in RaceActivities :
       /\ OnBoard(MaxBoardEvents)
       /\ TotalMissionsBelow(BoardMissions + MaxBoardMissions)
       /\ RecordActivity(team_id, a[1], a[2], a[3])
  \/ \E team_id \in TeamIds :
       /\ OnBoard(MaxBoardEvents)
       /\ ThrowYut(team_id)
  \/ Reset

SpecBoard == InitBoard /\ [][NextBoard]_vars

---------------------------------------------------------------------------
(* Registration: the names of the teams, both variants *)

\* registration: activities recorded
MaxTeamMissions == 3

\* names as typed: empty, blank, plain, padded, with a space inside
TeamNames ==
  { <<>>, <<" ">>, <<"A">>, <<" ", "A", " ">>, <<"B">>, <<"A", " ", "B">> }

\* <<difficulty, category, participant_count>>: two activities of the first
\* are worth one of the second
TeamActivities == {<<"easy", "talk", 1>>, <<"hard", "talk", 1>>}

NextTeams ==
  \/ \E name \in TeamNames : \E id \in _new_id(teams) : AddTeam(name, id)
  \/ \E team_id \in TeamIds \ {UnknownId}, a \in TeamActivities :
       /\ TotalMissionsBelow(MaxTeamMissions)
       /\ RecordActivity(team_id, a[1], a[2], a[3])
  \/ Reset
  \/ \E name \in TeamNames : \E id \in A_new_id(teams) : A_AddTeam(name, id)
  \/ \E team_id \in TeamIds \ {UnknownId}, a \in TeamActivities :
       /\ TotalMissionsBelow(MaxTeamMissions)
       /\ A_RecordActivity(team_id, a[1], a[2], a[3])
  \/ A_Reset

SpecTeams == InitScore /\ [][NextTeams]_vars

---------------------------------------------------------------------------
(* Long games: the log buffer two entries short of its cap *)

\* long games: events explored after the board's last event
MaxLogEvents == 4

\* n times the same call
Repeat(call, n) == [k \in 1..n |-> call]

\* the calls of LogScript that are not padding log 25 entries
LogPadding == (LOG_CAP - 2) - 25

\* A on cell 47 and B on cell 45, each with throw chances, after as many
\* activities of B as bring the log to LOG_CAP - 2 entries
LogScript ==
  << CallAdd(<<"A">>), CallAdd(<<"B">>) >>
    \o Repeat(CallActivity(1), 2)
    \o Repeat(CallActivity(2), 2 + LogPadding)
    \o Repeat(CallThrow(1, "mo"), 9) \o << CallThrow(1, "gae") >>
    \o Repeat(CallThrow(2, "mo"), 9)

LogBoard == replay(NewGame, LogScript, Len(LogScript))

\* the world one call of a script leaves, variant A
A_played(w, call) ==
  IF call.op = "add_team"
  THEN A_add_team(w, call.name, FreshId(w.teams)).world
  ELSE A_record_activity(w, w.teams[call.team].id, "hard", "talk", 1).world

RECURSIVE A_replay_span(_, _, _, _)
A_replay_span(w, script, lo, hi) ==
  IF lo > hi THEN w
  ELSE IF lo = hi THEN A_played(w, script[lo])
  ELSE LET mid == (lo + hi) \div 2
       IN  CHOOSE v \in {A_replay_span(w0, script, mid + 1, hi) :
                           w0 \in {A_replay_span(w, script, lo, mid)}} : TRUE

\* the world the first k calls of script leave, from w, variant A
A_replay(w, script, k) == A_replay_span(w, script, 1, k)

\* one team, and activities up to A_LOG_CAP - 2 entries
A_LogScript == << CallAdd(<<"A">>) >> \o Repeat(CallActivity(1), A_LOG_CAP - 3)

A_LogBoard == A_replay(NewGame, A_LogScript, Len(A_LogScript))

\* a long game of either variant
InitLog ==
  /\ variant \in {"A", "B"}
  /\ LET b == IF variant = "A" THEN A_LogBoard ELSE LogBoard
     IN  /\ teams = b.teams
         /\ logs = b.logs
         /\ finish_order = b.finish_order
         /\ store = b.store
  /\ result = [op |-> "init", ok |-> TRUE, msg |-> "init", key |-> "-"]

\* the cap of the log buffer of the running variant
LogCap == IF variant = "A" THEN A_LOG_CAP ELSE LOG_CAP

\* the game is the long game, at most cap events later (a reset ends it)
OnLogBoard(cap) == Now(logs) >= LogCap - 1 /\ Now(logs) < LogCap - 1 + cap

LogNames == {<<"A">>, <<"C">>}

NextLog ==
  \/ \E name \in LogNames : \E id \in _new_id(teams) :
       /\ OnLogBoard(MaxLogEvents)
       /\ AddTeam(name, id)
  \/ \E team_id \in TeamIds, a \in RaceActivities :
       /\ OnLogBoard(MaxLogEvents)
       /\ RecordActivity(team_id, a[1], a[2], a[3])
  \/ \E team_id \in TeamIds :
       /\ OnLogBoard(MaxLogEvents)
       /\ ThrowYut(team_id)
  \/ Reset
  \/ \E name \in LogNames : \E id \in A_new_id(teams) :
       /\ OnLogBoard(MaxLogEvents)
       /\ A_AddTeam(name, id)
  \/ \E team_id \in TeamIds, a \in RaceActivities :
       /\ OnLogBoard(MaxLogEvents)
       /\ A_RecordActivity(team_id, a[1], a[2], a[3])
  \/ A_Reset

SpecLog == InitLog /\ [][NextLog]_vars

---------------------------------------------------------------------------
(* Restarts: the program is started on a STORAGE_FILE it finds, written by  *)
(* an earlier run, by an earlier version, or damaged                        *)

\* restarts: activities on record, all teams together
MaxLoadMissions == 5
\* restarts: events logged
MaxLoadEvents == 7

\* two teams registered, two activities of A and one of B
SavedScript ==
  << CallAdd(<<"A">>), CallAdd(<<"B">>), CallActivity(1), CallActivity(1),
     CallActivity(2) >>

\* the file an earlier run of variant B left
SavedFile == replay(NewGame, SavedScript, Len(SavedScript)).store

\* the file an earlier run of variant A left
A_SavedFile == A_replay(NewGame, SavedScript, Len(SavedScript)).store

\* the object raw without the key f, and with the key f set to v
without(raw, f) == [g \in DOMAIN raw \ {f} |-> raw[g]]

with(raw, f, v) == [g \in DOMAIN raw \cup {f} |-> IF g = f THEN v ELSE raw[g]]

\* the file with throw_granted_by_score left out of every team, as a
\* version without the field wrote it
OldFile ==
  [SavedFile EXCEPT !.teams =
     [k \in 1..Len(SavedFile.teams) |->
        without(SavedFile.teams[k], "throw_granted_by_score")]]

\* the file with a throw_granted_by_score that is not an int in every team
InvalidFile ==
  [SavedFile EXCEPT !.teams =
     [k \in 1..Len(SavedFile.teams) |->
        with(SavedFile.teams[k], "throw_granted_by_score", NotInt)]]

\* a file that is not JSON
GarbageFile == [exists |-> TRUE, text |-> "{"]

\* the file with a key Team does not know in its last team
UnknownKeyFile(file) ==
  [file EXCEPT !.teams[Len(file.teams)] = with(file.teams[Len(file.teams)], "color", 0)]

\* the file with a last team that has no name
NoNameFile(file) ==
  [file EXCEPT !.teams[Len(file.teams)] = without(file.teams[Len(file.teams)], "name")]

\* the file with a last log entry that has no time
BadLogFile(file) ==
  [file EXCEPT !.logs[Len(file.logs)] = [time |-> 0]]

\* the file without the key "teams"
NoTeamsFile(file) == without(file, "teams")

\* the files variant B is started on
LoadFiles ==
  { NoStore, SavedFile, OldFile, InvalidFile, GarbageFile,
    UnknownKeyFile(SavedFile), NoNameFile(SavedFile), BadLogFile(SavedFile),
    NoTeamsFile(SavedFile) }

\* the files variant A is started on: SavedFile has keys its Team does not know
A_LoadFiles ==
  { NoStore, A_SavedFile, SavedFile, GarbageFile,
    UnknownKeyFile(A_SavedFile), NoNameFile(A_SavedFile), BadLogFile(A_SavedFile),
    NoTeamsFile(A_SavedFile) }

\* main of either variant, started on a file: game = Game.load()
InitLoad ==
  /\ variant \in {"A", "B"}
  /\ store \in (IF variant = "A" THEN A_LoadFiles ELSE LoadFiles)
  /\ LET file == [teams |-> <<>>, logs |-> <<>>, finish_order |-> <<>>, store |-> store]
         game == IF variant = "A" THEN A_load(file) ELSE load(file)
     IN  /\ teams = game.teams
         /\ logs = game.logs
         /\ finish_order = game.finish_order
  /\ result = [op |-> "load", ok |-> TRUE, msg |-> "loaded", key |-> "-"]

\* the game after a start, and the next start
NextLoad ==
  \/ \E team_id \in TeamIds, a \in RaceActivities :
       /\ TotalMissionsBelow(MaxLoadMissions)
       /\ RecordActivity(team_id, a[1], a[2], a[3])
  \/ \E team_id \in TeamIds :
       /\ EventsBelow(MaxLoadEvents)
       /\ ThrowYut(team_id)
  \/ Reset
  \/ Load
  \/ \E team_id \in TeamIds, a \in RaceActivities :
       /\ TotalMissionsBelow(MaxLoadMissions)
       /\ A_RecordActivity(team_id, a[1], a[2], a[3])
  \/ A_Reset
  \/ A_Load

SpecLoad == InitLoad /\ [][NextLoad]_vars

---------------------------------------------------------------------------
(* The race of a single team, with fairness *)

\* backdo is drawn only while the team has at most this many activities
MaxBackdoMissions == 2

\* an activity is recorded only while the team holds fewer throw chances
MaxRaceChance == 1

\* Game() after add_team("A")
SoloGame == replay(NewGame, <<CallAdd(<<"A">>)>>, 1)

InitRace ==
  /\ variant = "B"
  /\ teams = SoloGame.teams
  /\ logs = SoloGame.logs
  /\ finish_order = SoloGame.finish_order
  /\ store = SoloGame.store
  /\ result = [op |-> "init", ok |-> TRUE, msg |-> "init", key |-> "-"]

\* the outcomes drawn in the race: backdo only in the team's early game
RaceDraws ==
  IF teams[1].mission_count <= MaxBackdoMissions
  THEN draw_yut
  ELSE {yut \in draw_yut : yut.key # "backdo"}

\* throw_yut for the team passes its validation
RaceThrowEnabled == teams[1].finished_at = None /\ teams[1].throw_chance > 0

\* record_activity is called for the team: it holds few throw chances
RaceActivityEnabled == teams[1].throw_chance < MaxRaceChance

\* record_activity for the team, worth one throw chance
RaceActivity ==
  /\ RaceActivityEnabled
  /\ \E a \in RaceActivities : RecordActivity(teams[1].id, a[1], a[2], a[3])

\* throw_yut for the team, whether or not it may throw
RaceThrow ==
  /\ variant = "B"
  /\ \E yut \in RaceDraws : Returned("throw_yut", throw_yut(World, teams[1].id, yut))

NextRace == RaceActivity \/ RaceThrow

\* what a successful throw_yut returns
ThrowReturns ==
  {[op |-> "throw_yut", ok |-> TRUE, msg |-> "thrown", key |-> yut.key] :
     yut \in draw_yut}

\* a successful throw_yut has returned: it has logged the throw, and the
\* finish before it when the team finished
ThrowTaken ==
  /\ RaceThrowEnabled
  /\ result' \in ThrowReturns
  /\ logs' \in {add_log(World).logs, add_log(add_log(World)).logs}

\* a successful record_activity has returned and has logged the activity
ActivityTaken ==
  /\ RaceActivityEnabled
  /\ result' = [op |-> "record_activity", ok |-> TRUE,
                msg |-> "activity_recorded", key |-> "-"]
  /\ logs' = add_log(World).logs

\* record_activity and throw_yut are taken whenever they stay enabled. The
\* steps of ThrowTaken are the steps of RaceThrow from a state where
\* RaceThrowEnabled holds, those of ActivityTaken the steps of RaceActivity
\* (CallsAreTaken), and each changes logs: the two conditions are
\* WF_vars(RaceThrowEnabled /\ RaceThrow) and WF_vars(RaceActivity), stated
\* on the return value and the log line of the call.
SpecRace ==
  /\ InitRace /\ [][NextRace]_vars
  /\ WF_<<result, logs>>(ActivityTaken)
  /\ WF_<<result, logs>>(ThrowTaken)

---------------------------------------------------------------------------
(* Properties.  A property of a method is stated for the call of the method *)
(* in every reachable state, on every input of the sets below.              *)

ClaimDifficulties == {"easy", "medium", "hard", "extreme"}
ClaimCategories == {"talk", "teamplay", "help", "challenge", "rest"}
ClaimParticipants == {0, 1, 3, 5}

\* record_activity of the running variant, called in the current state
RecordCall(team_id, difficulty, category, participant_count) ==
  IF variant = "A"
  THEN A_record_activity(World, team_id, difficulty, category, participant_count)
  ELSE record_activity(World, team_id, difficulty, category, participant_count)

\* index of the team a call with team_id acts on (0: no such team)
Target(team_id) ==
  IF \A k \in 1..Len(teams) : teams[k].id # team_id THEN 0
  ELSE CHOOSE k \in 1..Len(teams) :
         teams[k].id = team_id /\ \A j \in 1..(k - 1) : teams[j].id # team_id

ClaimedDifficultyPoints(difficulty) ==
  CASE difficulty = "easy" -> 10
    [] difficulty = "medium" -> 20
    [] difficulty = "hard" -> 30

\* 10 + difficultyPoints + max(0, participantCount - 2) * 20
ClaimedEarned(difficulty, participant_count) ==
  10 + ClaimedDifficultyPoints(difficulty) + Max(0, participant_count - 2) * 20

AllPositive(team) ==
  /\ team.category_count["talk"] > 0
  /\ team.category_count["teamplay"] > 0
  /\ team.category_count["help"] > 0
  /\ team.category_count["challenge"] > 0

\* the line tiers a team has been paid, all categories together
LinesTaken(team) ==
  team.line_bonus_taken["talk"] + team.line_bonus_taken["teamplay"]
    + team.line_bonus_taken["help"] + team.line_bonus_taken["challenge"]

\* the set and line bonus due to a team whose category counts are cc
ClaimedBonus(team, cc) ==
  (IF (\A c \in ClaimCategories \ {"rest"} : cc[c] > 0) /\ team.set_bonus_taken = 0
   THEN 40 ELSE 0)
  + 25 * ( Max(0, cc["talk"] \div 3 - team.line_bonus_taken["talk"])
         + Max(0, cc["teamplay"] \div 3 - team.line_bonus_taken["teamplay"])
         + Max(0, cc["help"] \div 3 - team.line_bonus_taken["help"])
         + Max(0, cc["challenge"] \div 3 - team.line_bonus_taken["challenge"]) )

InvalidActivity(team_id, difficulty, category, participant_count) ==
  \/ Target(team_id) = 0
  \/ difficulty \notin {"easy", "medium", "hard"}
  \/ category \notin {"talk", "teamplay", "help", "challenge"}
  \/ participant_count < 1

\* C1: record_activity called with an unknown team id, a difficulty outside
\* {easy, medium, hard}, a category outside {talk, teamplay, help, challenge}
\* or participant_count < 1 returns a failure and leaves the teams, the
\* logs, finish_order and the persisted snapshot as they were.
C1_InvalidActivityChangesNothing ==
  \A team_id \in TeamIds, d \in ClaimDifficulties, c \in ClaimCategories,
     p \in ClaimParticipants :
    InvalidActivity(team_id, d, c, p) =>
      LET r == RecordCall(team_id, d, c, p)
      IN  ~r.ok /\ r.world = World

\* C1 witness: a team with activities on record and a snapshot on file, and
\* record_activity has just refused a category
C1_Witness ==
  /\ result.op = "record_activity" /\ ~result.ok
  /\ result.msg = "invalid_category"
  /\ Len(teams) = 1 /\ teams[1].mission_count >= 2
  /\ store.exists /\ store.teams = teams

\* C3: a successful record_activity adds to the team's score exactly
\* 10 + difficultyPoints + max(0, participantCount - 2) * 20 plus the set and
\* line bonus of the same call, adds 1 to mission_count and 1 to
\* category_count[category], on every valid input.
C3_ActivityScore ==
  \A team_id \in TeamIds, d \in ClaimDifficulties, c \in ClaimCategories,
     p \in ClaimParticipants :
    ~InvalidActivity(team_id, d, c, p) =>
      LET i == Target(team_id)
          r == RecordCall(team_id, d, c, p)
          t == teams[i]
          u == r.world.teams[i]
      IN  /\ r.ok
          /\ u.mission_count = t.mission_count + 1
          /\ u.category_count = [t.category_count EXCEPT ![c] = @ + 1]
          /\ u.score = t.score + ClaimedEarned(d, p) + ClaimedBonus(t, u.category_count)

\* C3 witness: hard, talk, 3 participants on a fresh team: 10 + 30 + 20
C3_Witness ==
  /\ result.op = "record_activity" /\ result.ok
  /\ Len(teams) = 1 /\ teams[1].score = 60 /\ teams[1].mission_count = 1
  /\ teams[1].category_count["talk"] = 1

\* C4: the 40-point set bonus is added in the record_activity call that
\* first makes all 4 category counts positive, and in no other call: what a
\* call adds beyond the earned points and the line tiers it pays is 40 when
\* it completes the set, else 0; a complete set stays marked as taken.
C4_SetBonusOnce ==
  \A team_id \in TeamIds, d \in ClaimDifficulties, c \in ClaimCategories,
     p \in ClaimParticipants :
    ~InvalidActivity(team_id, d, c, p) =>
      LET i == Target(team_id)
          t == teams[i]
          u == RecordCall(team_id, d, c, p).world.teams[i]
          set_paid == u.score - t.score - ClaimedEarned(d, p)
                        - 25 * (LinesTaken(u) - LinesTaken(t))
      IN  /\ set_paid = (IF ~AllPositive(t) /\ AllPositive(u) THEN 40 ELSE 0)
          /\ u.set_bonus_taken = (IF AllPositive(u) THEN 1 ELSE 0)
          /\ AllPositive(t) => (AllPositive(u) /\ t.set_bonus_taken = 1)

\* C4 witness: the set is complete and more activities than categories are
\* on record, so a call was made after the one that completed the set or
\* the set was completed by a call later than the 4th
C4_Witness ==
  /\ result.op = "record_activity" /\ result.ok
  /\ Len(teams) = 1 /\ teams[1].set_bonus_taken = 1
  /\ teams[1].mission_count = 5 /\ teams[1].score = 5 * 40 + 40

\* C5: the k-th activity of a category pays a 25-point line bonus iff k is a
\* multiple of 3, whatever the counts of the other categories, and leaves
\* the line tiers of the other categories alone.
C5_LineBonusEveryThird ==
  \A team_id \in TeamIds, d \in ClaimDifficulties, c \in ClaimCategories,
     p \in ClaimParticipants :
    ~InvalidActivity(team_id, d, c, p) =>
      LET i == Target(team_id)
          t == teams[i]
          u == RecordCall(team_id, d, c, p).world.teams[i]
          k == t.category_count[c] + 1
          line_paid == u.score - t.score - ClaimedEarned(d, p)
                         - 40 * (u.set_bonus_taken - t.set_bonus_taken)
      IN  /\ line_paid = (IF k % 3 = 0 THEN 25 ELSE 0)
          /\ \A o \in ClaimCategories \ {"rest", c} :
               u.line_bonus_taken[o] = t.line_bonus_taken[o]
          /\ u.line_bonus_taken[c] = k \div 3

\* C5 witness: six activities of one category, two lines paid
C5_Witness ==
  /\ result.op = "record_activity" /\ result.ok
  /\ Len(teams) = 1 /\ teams[1].category_count["talk"] = 6
  /\ teams[1].line_bonus_taken["talk"] = 2 /\ teams[1].score = 6 * 40 + 2 * 25

\* a call of throw_yut with team_id passes the validation
CanThrow(team_id) ==
  /\ Target(team_id) # 0
  /\ teams[Target(team_id)].finished_at = None
  /\ teams[Target(team_id)].throw_chance > 0

\* C2: throw_yut called with an unknown team id, for a finished team or for
\* a team with no throw chance returns a failure and changes nothing: teams,
\* logs, finish_order and the persisted snapshot are as they were.
C2_InvalidThrowChangesNothing ==
  \A team_id \in TeamIds :
    ~CanThrow(team_id) =>
      \A yut \in draw_yut :
        LET r == throw_yut(World, team_id, yut)
        IN  ~r.ok /\ r.world = World

\* C2 witness: throw_yut has just refused a team that has used up its throw
\* chances, in a race where a team is on the track and the other team still
\* holds a chance
C2_Witness ==
  /\ result.op = "throw_yut" /\ ~result.ok /\ result.msg = "no_throw_chance"
  /\ Len(teams) = 2 /\ store.teams = teams
  /\ \E k \in 1..2 : teams[k].throw_chance = 0 /\ teams[k].position > 0
  /\ \E k \in 1..2 : teams[k].throw_chance > 0

\* C6: after every operation of variant B every team has
\* throw_granted_by_score = floor(score / 40).
C6_GrantedIsScoreOver40 ==
  \A k \in 1..Len(teams) :
    teams[k].throw_granted_by_score = teams[k].score \div 40

\* C6 witness: a throw has finished a team, and the finish bonus has carried
\* its score over a multiple of 40
C6_Witness ==
  /\ result.op = "throw_yut" /\ result.ok
  /\ \E k \in 1..Len(teams) :
       teams[k].finished_at # None /\ teams[k].throw_granted_by_score >= 2

\* the teams a throw of team i landing on cell p captures
ClaimedCaptured(i, p) ==
  IF p <= 0 \/ p >= 50 THEN {}
  ELSE {k \in 1..Len(teams) :
          teams[k].id # teams[i].id /\ teams[k].finished_at = None
            /\ teams[k].position = p}

\* <<difficulty, category, participant_count>> the race's claims try: worth
\* 20, 40 and 100 points before bonuses
ClaimRaceActivities ==
  {<<"easy", "talk", 1>>, <<"hard", "talk", 1>>, <<"hard", "help", 5>>}

\* C7: every event that raises a score from s to s2 adds exactly
\* floor(s2 / 40) - floor(s / 40) throw chances, beside the other changes of
\* the call to throw_chance: none for an activity; for a throw the chance
\* spent, one per captured team and the extra throw of yut and mo.  The
\* converted chances are never negative, and a team the call does not score
\* keeps its throw chances.
C7_MilestoneChances ==
  /\ \A team_id \in TeamIds \ {UnknownId}, a \in ClaimRaceActivities :
       LET i == Target(team_id)
           w == record_activity(World, team_id, a[1], a[2], a[3]).world
       IN  \A k \in 1..Len(teams) :
             /\ w.teams[k].throw_chance - teams[k].throw_chance
                  = w.teams[k].score \div 40 - teams[k].score \div 40
             /\ w.teams[k].score >= teams[k].score
             /\ k # i => w.teams[k].score = teams[k].score
  /\ \A team_id \in TeamIds :
       CanThrow(team_id) =>
         \A yut \in draw_yut :
           LET i == Target(team_id)
               w == throw_yut(World, team_id, yut).world
               other == IF w.teams[i].finished_at # None THEN 0
                        ELSE Cardinality(ClaimedCaptured(i, w.teams[i].position))
           IN  \A k \in 1..Len(teams) :
                 /\ w.teams[k].throw_chance - teams[k].throw_chance
                      = (IF k = i THEN other + yut.extra_throw - 1 ELSE 0)
                        + (w.teams[k].score \div 40 - teams[k].score \div 40)
                 /\ w.teams[k].score >= teams[k].score
                 /\ k # i => w.teams[k].score = teams[k].score

\* C7 witness: a team's second capture has taken its score from 70 to 100,
\* over a multiple of 40
C7_Witness ==
  /\ result.op = "throw_yut" /\ result.ok
  /\ \E k \in 1..Len(teams) :
       /\ teams[k].score = 100 /\ teams[k].mission_count = 1
       /\ teams[k].finished_at = None /\ teams[k].throw_granted_by_score = 2

\* C8: every team has 0 <= position <= 50; a throw of backdo by a team on
\* cell 0 leaves it on cell 0, and a throw that would pass cell 50 leaves the
\* team on cell 50.
C8_PositionOnTrack ==
  /\ \A k \in 1..Len(teams) : teams[k].position >= 0 /\ teams[k].position <= 50
  /\ \A team_id \in TeamIds :
       CanThrow(team_id) =>
         \A yut \in draw_yut :
           LET i == Target(team_id)
               w == throw_yut(World, team_id, yut).world
           IN  /\ (teams[i].position = 0 /\ yut.key = "backdo")
                    => w.teams[i].position = 0
               /\ teams[i].position + yut.step >= 50 => w.teams[i].position = 50

\* C8 witness: the only team drew backdo on its first throw, from cell 0
C8_Witness ==
  /\ result.op = "throw_yut" /\ result.ok /\ result.key = "backdo"
  /\ Len(teams) = 1 /\ Len(logs) = 3 /\ teams[1].mission_count = 1
  /\ teams[1].position = 0

IdsOf(seq) == {seq[k] : k \in 1..Len(seq)}

\* C9: for every team, finished_at is set iff position = 50 iff the team's id
\* is in finish_order; finish_order has no duplicate and holds no id that is
\* not the id of a team.
C9_FinishedIffAt50IffInOrder ==
  /\ \A k \in 1..Len(teams) :
       /\ (teams[k].finished_at # None) <=> (teams[k].position = 50)
       /\ (teams[k].finished_at # None) <=> (teams[k].id \in IdsOf(finish_order))
  /\ Cardinality(IdsOf(finish_order)) = Len(finish_order)
  /\ IdsOf(finish_order) \subseteq {teams[k].id : k \in 1..Len(teams)}

\* C10: a throw that takes a racing team to position + step >= 50 puts it on
\* cell 50, sets finished_at, appends its id to finish_order once, adds
\* exactly 50 to its score, converts the milestones of the new score, and
\* captures nobody: every other team is as it was.
C10_FinishingThrow ==
  \A team_id \in TeamIds :
    CanThrow(team_id) =>
      \A yut \in {y \in draw_yut : teams[Target(team_id)].position + y.step >= 50} :
        LET i == Target(team_id)
            w == throw_yut(World, team_id, yut).world
            t == teams[i]
            u == w.teams[i]
        IN  /\ u.position = 50
            /\ u.finished_at # None
            /\ w.finish_order = Append(finish_order, team_id)
            /\ u.score = t.score + 50
            /\ u.throw_granted_by_score = u.score \div 40
            /\ u.throw_chance = t.throw_chance - 1 + yut.extra_throw
                                  + (u.score \div 40 - t.score \div 40)
            /\ Len(w.teams) = Len(teams)
            /\ \A k \in 1..Len(teams) : k # i => w.teams[k] = teams[k]

\* C10 witness: the last throw finished a team (the finish is logged just
\* before the throw) while an unfinished team stood on the track
C10_Witness ==
  /\ result.op = "throw_yut" /\ result.ok
  /\ \E k \in 1..Len(teams) :
       teams[k].finished_at # None /\ teams[k].finished_at + 2 = Now(logs)
  /\ \E k \in 1..Len(teams) : teams[k].finished_at = None

\* names the claims pass to add_team: blank, new, padded
ClaimNames == {<<>>, <<" ">>, <<"A">>, <<"Z">>, <<" ", "Z", " ">>}

\* the worlds the calls of variant B other than reset leave, from the
\* current state
AfterCall ==
     {add_team(World, name, id).world : name \in ClaimNames, id \in _new_id(teams)}
  \cup {record_activity(World, team_id, a[1], a[2], a[3]).world :
          team_id \in TeamIds, a \in ClaimRaceActivities}
  \cup {throw_yut(World, team_id, yut).world : team_id \in TeamIds, yut \in draw_yut}

IsPrefix(s, t) == Len(s) <= Len(t) /\ SubSeq(t, 1, Len(s)) = s

\* C11: no call other than reset changes the position or finished_at of a
\* finished team or takes it out of finish_order, and the finish_order before
\* the call is a prefix of the finish_order after it.
C11_FinishedIsTerminal ==
  \A w \in AfterCall :
    /\ IsPrefix(finish_order, w.finish_order)
    /\ Len(w.teams) >= Len(teams)
    /\ \A k \in 1..Len(teams) :
         teams[k].finished_at # None =>
           /\ w.teams[k].id = teams[k].id
           /\ w.teams[k].position = teams[k].position
           /\ w.teams[k].finished_at = teams[k].finished_at
           /\ w.teams[k].id \in IdsOf(w.finish_order)

\* C11 witness: a team throws in a game where another team finished in an
\* earlier call, and both finished_at and finish_order are as the finish left
\* them
C11_Witness ==
  /\ result.op = "throw_yut" /\ result.ok
  /\ Len(finish_order) = 1
  /\ \E k \in 1..Len(teams) :
       /\ teams[k].finished_at # None /\ teams[k].position = 50
       /\ Now(logs) >= teams[k].finished_at + 4
       /\ finish_order[1] = teams[k].id

\* the cell a throw of yut takes teams[i] to
Landing(i, yut) == Max(0, teams[i].position + yut.step)

\* the other unfinished teams standing on cell p
Others(i, p) ==
  {k \in 1..Len(teams) : k # i /\ teams[k].finished_at = None /\ teams[k].position = p}

\* C12: a throw that lands the mover on a cell p, 0 < p < 50, where other
\* unfinished teams stand sends each of them to cell floor(p / 10) * 10 and
\* gives the mover 30 points and one throw chance per captured team, the
\* chances before the milestones of the new score are converted; the teams
\* that are not on the cell are as they were.
C12_CaptureOnSharedCell ==
  \A team_id \in TeamIds :
    CanThrow(team_id) =>
      \A yut \in draw_yut :
        LET i == Target(team_id)
            p == Landing(i, yut)
            n == Cardinality(Others(i, p))
            w == throw_yut(World, team_id, yut).world
        IN  (0 < p /\ p < 50 /\ n >= 1) =>
              /\ w.teams[i].position = p
              /\ w.teams[i].score = teams[i].score + 30 * n
              /\ w.teams[i].throw_chance
                   - (w.teams[i].score \div 40 - teams[i].score \div 40)
                   = teams[i].throw_chance - 1 + n + yut.extra_throw
              /\ \A k \in Others(i, p) :
                   w.teams[k] = [teams[k] EXCEPT !.position = (p \div 10) * 10]
              /\ \A k \in 1..Len(teams) :
                   (k # i /\ k \notin Others(i, p)) => w.teams[k] = teams[k]

\* C12 witness: C, on cell 11, drew backdo and captured both A and B on cell 10
C12_Witness ==
  /\ result.op = "throw_yut" /\ result.ok /\ result.key = "backdo"
  /\ Len(teams) = 3
  /\ \A k \in 1..3 : teams[k].position = 10 /\ teams[k].finished_at = None
  /\ teams[3].score = 160 /\ teams[1].score = 40 /\ teams[2].score = 40

\* C13: a throw that lands the mover on cell 0 or on cell 50 captures
\* nobody: every other team is as it was, and the mover's score grows by
\* nothing (cell 0) or by the finish bonus alone (cell 50), its throw chances
\* by nothing but the extra throw and the milestones of the finish bonus; and
\* no throw changes a finished team.
C13_NoCaptureAtStartOrFinish ==
  \A team_id \in TeamIds :
    CanThrow(team_id) =>
      \A yut \in draw_yut :
        LET i == Target(team_id)
            p == Landing(i, yut)
            w == throw_yut(World, team_id, yut).world
            gain == IF p >= 50 THEN 50 ELSE 0
        IN  /\ (p = 0 \/ p >= 50) =>
                 /\ \A k \in 1..Len(teams) : k # i => w.teams[k] = teams[k]
                 /\ w.teams[i].score = teams[i].score + gain
                 /\ w.teams[i].throw_chance
                      = teams[i].throw_chance - 1 + yut.extra_throw
                        + ((teams[i].score + gain) \div 40 - teams[i].score \div 40)
            /\ \A k \in 1..Len(teams) :
                 (k # i /\ teams[k].finished_at # None) => w.teams[k] = teams[k]

\* C13 witness: B, on cell 1 with 80 points, drew backdo and joined C on cell
\* 0 without capturing it
C13_Witness ==
  /\ result.op = "throw_yut" /\ result.ok /\ result.key = "backdo"
  /\ Len(teams) = 3
  /\ teams[2].position = 0 /\ teams[2].score = 80 /\ teams[2].throw_chance = 0
  /\ teams[3].position = 0 /\ teams[3].finished_at = None

\* C14: a successful throw changes the mover's throw_chance by -1, plus the
\* number of teams it captures, plus the milestones its new score converts,
\* plus 1 if the outcome is yut or mo, whether or not the throw captures or
\* finishes; its score grows by 30 per captured team and by 50 if it finishes.
C14_ThrowChanceAccount ==
  \A team_id \in TeamIds :
    CanThrow(team_id) =>
      \A yut \in draw_yut :
        LET i == Target(team_id)
            p == Landing(i, yut)
            n == IF 0 < p /\ p < 50 THEN Cardinality(Others(i, p)) ELSE 0
            extra == IF yut.key \in {"yut", "mo"} THEN 1 ELSE 0
            s2 == teams[i].score + 30 * n + (IF p >= 50 THEN 50 ELSE 0)
            r == throw_yut(World, team_id, yut)
        IN  /\ r.ok
            /\ r.world.teams[i].score = s2
            /\ r.world.teams[i].throw_chance
                 = teams[i].throw_chance - 1 + n
                   + (s2 \div 40 - teams[i].score \div 40) + extra

\* C14 witness: A, on cell 10 with 80 points and one throw chance, drew mo and
\* captured C on cell 15: one chance spent, one for the capture, one for mo
C14_Witness ==
  /\ result.op = "throw_yut" /\ result.ok /\ result.key = "mo"
  /\ Len(teams) = 3
  /\ teams[1].position = 15 /\ teams[1].score = 110 /\ teams[1].throw_chance = 2
  /\ teams[1].mission_count = 2
  /\ teams[3].position = 10

\* C15: in every reachable state the throw_chance of every team is an
\* integer >= 0.
C15_ThrowChanceNotNegative ==
  \A k \in 1..Len(teams) : teams[k].throw_chance \in Nat

\* C15 witness: a team has spent its last throw chance on a throw without
\* extra throw
C15_Witness ==
  /\ result.op = "throw_yut" /\ result.ok /\ result.key \in {"do", "gae", "geol"}
  /\ \E k \in 1..Len(teams) :
       /\ teams[k].throw_chance = 0 /\ teams[k].position > 0
       /\ teams[k].mission_count = 1 /\ teams[k].score = 40
       /\ \A j \in 1..Len(teams) : j # k => teams[j].mission_count = 0

\* C16: in every reachable state the ids of the teams are pairwise different,
\* so that an id is the id of at most one team.
C16_IdsUnique ==
  \A j, k \in 1..Len(teams) : j # k => teams[j].id # teams[k].id

\* add_team of the running variant, called in the current state
AddCall(name, id) ==
  IF variant = "A" THEN A_add_team(World, name, id) ELSE add_team(World, name, id)

\* names as typed, each with the name it is trimmed to
ClaimTypedNames ==
  { <<<<>>, <<>>>>, <<<<" ">>, <<>>>>, <<<<" ", " ">>, <<>>>>,
    <<<<"A">>, <<"A">>>>, <<<<" ", "A">>, <<"A">>>>, <<<<"A", " ">>, <<"A">>>>,
    <<<<" ", "B", " ">>, <<"B">>>>, <<<<"A", " ", "B">>, <<"A", " ", "B">>>>,
    <<<<"Z">>, <<"Z">>>>, <<<<" ", "Z", " ", " ">>, <<"Z">>>> }

\* a team as add_team must create it
ClaimedNewTeam(team, id, name) ==
  /\ team.id = id /\ team.name = name
  /\ team.score = 0 /\ team.mission_count = 0
  /\ \A c \in {"talk", "teamplay", "help", "challenge"} :
       team.category_count[c] = 0 /\ team.line_bonus_taken[c] = 0
  /\ team.set_bonus_taken = 0
  /\ variant = "B" =>
       /\ team.throw_chance = 0 /\ team.position = 0
       /\ team.throw_granted_by_score = 0 /\ team.finished_at = None

\* C17: add_team refuses a name that is empty once trimmed and a name that,
\* trimmed, is the name of a team, and then changes nothing; any other name
\* adds one team under the trimmed name with every count at 0, no bonus
\* taken, throw_chance 0 and position 0; the names of the teams are pairwise
\* different in every reachable state.
C17_AddTeamNames ==
  /\ \A j, k \in 1..Len(teams) : j # k => teams[j].name # teams[k].name
  /\ \A typed \in ClaimTypedNames, id \in _new_id(teams) :
       LET r == AddCall(typed[1], id)
           taken == \E k \in 1..Len(teams) : teams[k].name = typed[2]
       IN  IF typed[2] = <<>> \/ taken
           THEN ~r.ok /\ r.world = World
           ELSE /\ r.ok
                /\ Len(r.world.teams) = Len(teams) + 1
                /\ SubSeq(r.world.teams, 1, Len(teams)) = teams
                /\ ClaimedNewTeam(r.world.teams[Len(teams) + 1], id, typed[2])
                /\ Len(r.world.logs) = Len(logs) + 1

\* C17 witness: add_team has just refused a name already taken, in a game of
\* three teams with activities on record
C17_Witness ==
  /\ result.op = "add_team" /\ ~result.ok /\ result.msg = "duplicate_name"
  /\ Len(teams) = 3 /\ teams[1].mission_count = 2
  /\ store.teams = teams

\* the worlds the calls of variant A other than reset leave
A_AfterCall ==
     {A_add_team(World, name, id).world : name \in ClaimNames, id \in A_new_id(teams)}
  \cup {A_record_activity(World, team_id, a[1], a[2], a[3]).world :
          team_id \in TeamIds, a \in ClaimRaceActivities}

\* lg is ordered most recent first
NewestFirst(lg) == \A j \in 1..(Len(lg) - 1) : lg[j].at > lg[j + 1].at

\* after holds n new entries in front of the entries of before, in their
\* order, less the oldest entries beyond cap
Pushed(before, after, n, cap) ==
  /\ Len(after) = (IF Len(before) + n <= cap THEN Len(before) + n ELSE cap)
  /\ \A j \in (n + 1)..Len(after) : after[j] = before[j - n]
  /\ \A j \in 1..n : \A k \in 1..Len(before) : after[j].at > before[k].at

\* C18: the log never holds more than 150 entries in variant B, 120 in
\* variant A, most recent first; a call other than reset puts its new
\* entries (at most 4) in front, keeps the older entries in their order and
\* discards only the oldest ones beyond the cap.
C18_LogBounded ==
  /\ Len(logs) <= (IF variant = "A" THEN 120 ELSE 150)
  /\ NewestFirst(logs)
  /\ \A w \in (IF variant = "A" THEN A_AfterCall ELSE AfterCall) :
       /\ Len(w.logs) <= (IF variant = "A" THEN 120 ELSE 150)
       /\ NewestFirst(w.logs)
       /\ \E n \in 0..4 :
            Pushed(logs, w.logs, n, IF variant = "A" THEN 120 ELSE 150)

\* C18 witness: with 148 entries in the log of variant B, B drew gae and
\* captured A: three entries in one call, and the oldest entry discarded
C18_Witness ==
  /\ variant = "B"
  /\ result.op = "throw_yut" /\ result.ok /\ result.key = "gae"
  /\ Len(logs) = 150 /\ logs[1].at = 151 /\ logs[150].at = 2
  /\ teams[1].position = 40 /\ teams[2].position = 47

\* what reset returns in the running variant, from the current state
AfterReset == IF variant = "A" THEN A_reset(World).world ELSE reset(World).world

\* C19: from every reachable state, reset leaves no teams, no log entries
\* and an empty finish_order, so that sorted_teams and the log view are
\* empty, and the snapshot it writes is that empty game.
C19_ResetEmpties ==
  /\ AfterReset.teams = <<>>
  /\ AfterReset.logs = <<>>
  /\ AfterReset.finish_order = <<>>
  /\ AfterReset.store.exists
  /\ AfterReset.store.teams = <<>>
  /\ AfterReset.store.logs = <<>>
  /\ variant = "B" => AfterReset.store.finish_order = <<>>
  /\ variant = "B" => sorted_teams(AfterReset) = <<>> /\ print_logs(AfterReset, 15) = <<>>
  /\ variant = "A" => A_sorted_teams(AfterReset) = <<>> /\ A_refresh_logs(AfterReset) = <<>>
  /\ result.op = "reset" =>
       /\ teams = <<>> /\ logs = <<>> /\ finish_order = <<>>
       /\ store.exists /\ store.teams = <<>> /\ store.logs = <<>>

\* a game of variant B with two teams, one of them finished, and a full
\* log, about to be reset
C19_BeforeReset ==
  /\ variant = "B"
  /\ Len(teams) = 2 /\ Len(finish_order) = 1 /\ Len(logs) = 150
  /\ store.exists /\ store.finish_order = finish_order
  /\ AfterReset.teams = <<>> /\ AfterReset.store.finish_order = <<>>

\* C19 witness: the game of variant B right after a reset
C19_Witness ==
  /\ variant = "B"
  /\ result.op = "reset" /\ teams = <<>> /\ logs = <<>> /\ finish_order = <<>>
  /\ store = [exists |-> TRUE, teams |-> <<>>, logs |-> <<>>, finish_order |-> <<>>]

\* the team has finished
Finished(t) == t.finished_at # None

\* team a ranks at least as high as team b among the unfinished teams:
\* higher score, then higher position, then higher mission_count
RanksNoLower(a, b) ==
  \/ a.score > b.score
  \/ a.score = b.score /\ a.position > b.position
  \/ a.score = b.score /\ a.position = b.position /\ a.mission_count >= b.mission_count

\* st holds the teams of ts, each as many times as ts does
IsPermutation(st, ts) ==
  /\ Len(st) = Len(ts)
  /\ \A k \in 1..Len(ts) :
       Cardinality({j \in 1..Len(st) : st[j] = ts[k]})
         = Cardinality({j \in 1..Len(ts) : ts[j] = ts[k]})

\* the order the ranking of variant B is said to have
Ranked(st, ts, order) ==
  /\ IsPermutation(st, ts)
  /\ \A i \in 1..Len(st) : \A j \in (i + 1)..Len(st) :
       /\ Finished(st[j]) => Finished(st[i])
       /\ Finished(st[i]) /\ Finished(st[j]) =>
            /\ \E k \in 1..Len(order) : order[k] = st[i].id
            /\ \E k \in 1..Len(order) : order[k] = st[j].id
            /\ index_of(order, st[i].id) < index_of(order, st[j].id)
       /\ ~Finished(st[i]) /\ ~Finished(st[j]) => RanksNoLower(st[i], st[j])

\* C20: in variant B sorted_teams returns a permutation of the teams in
\* which every finished team precedes every unfinished team, the finished
\* teams are in finish_order order and the unfinished teams are ordered by
\* higher score, then higher position, then higher mission_count.
C20_SortedTeamsRanking ==
  variant = "B" => Ranked(sorted_teams(World), teams, finish_order)

\* the ranking of C20 in the games whose teams have pairwise different ids
SortedTeamsRankingUniqueIds ==
  variant = "B" /\ (\A i, j \in 1..Len(teams) : teams[i].id = teams[j].id => i = j)
    => Ranked(sorted_teams(World), teams, finish_order)

\* a ranking of three teams with different ids, one finished, in which the
\* list as registered is not the list as ranked
SortedTeamsReorders ==
  /\ variant = "B" /\ Len(teams) = 3 /\ Len(finish_order) = 1
  /\ \A i, j \in 1..Len(teams) : teams[i].id = teams[j].id => i = j
  /\ sorted_teams(World) # teams

\* team a may stand before team b in the ranking of variant A: higher
\* score, then higher mission_count, then the name that comes first
A_RanksNoLower(a, b) ==
  \/ a.score > b.score
  \/ a.score = b.score /\ a.mission_count > b.mission_count
  \/ /\ a.score = b.score /\ a.mission_count = b.mission_count
     /\ ~str_less(b.name, a.name)

\* C21: in variant A sorted_teams returns a permutation of the teams
\* ordered by higher score, then higher mission_count, then name ascending.
C21_SortedTeamsOfA ==
  variant = "A" =>
    LET st == A_sorted_teams(World) IN
    /\ IsPermutation(st, teams)
    /\ \A i \in 1..Len(st) : \A j \in (i + 1)..Len(st) : A_RanksNoLower(st[i], st[j])

\* C21 witness: B, A and "A B" registered in that order, B and A with equal
\* score and mission_count, "A B" with an activity: the ranking is
\* "A B", A, B
C21_Witness ==
  /\ variant = "A" /\ Len(teams) = 3
  /\ teams[1].name = <<"B">> /\ teams[2].name = <<"A">>
  /\ teams[3].name = <<"A", " ", "B">>
  /\ teams[1].score = teams[2].score /\ teams[1].mission_count = teams[2].mission_count
  /\ teams[3].score > teams[1].score
  /\ A_sorted_teams(World) = <<teams[3], teams[2], teams[1]>>

\* a ranking decided by mission_count: A with one activity and B with two,
\* at equal score, B first
SortedTeamsOfAByMissions ==
  /\ variant = "A" /\ Len(teams) = 2
  /\ teams[1].name = <<"A">> /\ teams[2].name = <<"B">>
  /\ teams[1].score = teams[2].score
  /\ teams[1].mission_count = 1 /\ teams[2].mission_count = 2
  /\ A_sorted_teams(World) = <<teams[2], teams[1]>>

\* the game Game.load returns for STORAGE_FILE as it is now
Loaded == IF variant = "A" THEN A_load(World) ELSE load(World)

\* STORAGE_FILE holds teams, and Game.load returns them all
LoadsTeams ==
  /\ store.exists /\ "teams" \in DOMAIN store
  /\ Len(store.teams) > 0
  /\ Len(Loaded.teams) = Len(store.teams)

\* throw_granted_by_score is missing from the team of the snapshot
GrantedMissing(raw) == "throw_granted_by_score" \notin DOMAIN raw

\* throw_granted_by_score of the team of the snapshot is not an int
GrantedInvalid(raw) ==
  "throw_granted_by_score" \in DOMAIN raw /\ raw.throw_granted_by_score = NotInt

\* the k-th team is loaded with throw_granted_by_score = floor(score / 40),
\* and its next activity grants the milestones its score newly crosses
Healed(k) ==
  LET raw == store.teams[k]
      team == Loaded.teams[k]
  IN  /\ team.throw_granted_by_score = raw.score \div 40
      /\ \A a \in ClaimRaceActivities :
           LET r == record_activity(Loaded, team.id, a[1], a[2], a[3])
               after == r.world.teams[k]
           IN  r.ok /\ find_team(Loaded.teams, team.id) = k =>
                 after.throw_chance - team.throw_chance
                   = (after.score \div 40) - (raw.score \div 40)

\* C22: a team whose throw_granted_by_score is missing from the snapshot, or
\* is not an int there, is loaded with throw_granted_by_score equal to
\* floor(score / 40), and the next activity after the load grants only the
\* milestones newly crossed.
C22_LoadHealsGranted ==
  variant = "B" /\ LoadsTeams =>
    \A k \in 1..Len(store.teams) :
      GrantedMissing(store.teams[k]) \/ GrantedInvalid(store.teams[k]) => Healed(k)

\* the part of C22 about a throw_granted_by_score that is not an int
LoadHealsInvalidGranted ==
  variant = "B" /\ LoadsTeams =>
    \A k \in 1..Len(store.teams) : GrantedInvalid(store.teams[k]) => Healed(k)

\* a snapshot with a throw_granted_by_score that is not an int was loaded:
\* A, with 80 points, has throw_granted_by_score 2
LoadedInvalidGranted ==
  /\ variant = "B" /\ result.op = "load" /\ store = InvalidFile
  /\ Len(teams) = 2 /\ teams[1].score = 80 /\ teams[1].throw_granted_by_score = 2

\* the keys of a team of a snapshot of the running variant
ClaimTeamKeys ==
  IF variant = "A"
  THEN {"id", "name", "score", "mission_count", "category_count",
        "set_bonus_taken", "line_bonus_taken"}
  ELSE {"id", "name", "score", "mission_count", "throw_chance",
        "throw_granted_by_score", "position", "finished_at", "category_count",
        "set_bonus_taken", "line_bonus_taken"}

\* STORAGE_FILE exists and does not have the expected shape: it is not a
\* JSON object, or one of its teams has a key that is no field of Team or
\* lacks its id or its name, or one of its log entries has no time
Unparsable ==
  /\ store.exists
  /\ \/ "text" \in DOMAIN store
     \/ /\ "teams" \in DOMAIN store
        /\ \E k \in 1..Len(store.teams) :
             \/ \E f \in DOMAIN store.teams[k] : f \notin ClaimTeamKeys
             \/ "id" \notin DOMAIN store.teams[k]
             \/ "name" \notin DOMAIN store.teams[k]
     \/ /\ "logs" \in DOMAIN store
        /\ \E k \in 1..Len(store.logs) : "at" \notin DOMAIN store.logs[k]

\* C23: load returns a game with no teams, no logs and an empty
\* finish_order when STORAGE_FILE is absent and when it exists but does not
\* have the expected shape, also when the teams or logs read before the
\* failure were well formed.
C23_LoadFailsSoft ==
  ~store.exists \/ Unparsable =>
    /\ Loaded.teams = <<>>
    /\ Loaded.logs = <<>>
    /\ Loaded.finish_order = <<>>

\* C23 witness: variant B was started on a file whose first team is well
\* formed and whose second team has no name
C23_Witness ==
  /\ variant = "B" /\ result.op = "load"
  /\ store = NoNameFile(SavedFile)
  /\ ~team_raises(store.teams[1]) /\ team_raises(store.teams[2])
  /\ teams = <<>> /\ logs = <<>> /\ finish_order = <<>>

\* the counters of every team are in range
CountersInRange ==
  \A k \in 1..Len(teams) :
    /\ teams[k].set_bonus_taken \in {0, 1}
    /\ \A c \in CategorySet : teams[k].category_count[c] >= 0

\* a call other than reset keeps every team, and lowers none of its counters
CountersStep ==
  result'.op # "reset" =>
    /\ Len(teams') >= Len(teams)
    /\ \A k \in 1..Len(teams) :
         /\ teams'[k].score >= teams[k].score
         /\ teams'[k].mission_count >= teams[k].mission_count
         /\ variant = "B" =>
              teams'[k].throw_granted_by_score >= teams[k].throw_granted_by_score
         /\ teams'[k].set_bonus_taken >= teams[k].set_bonus_taken
         /\ \A c \in CategorySet :
              /\ teams'[k].category_count[c] >= teams[k].category_count[c]
              /\ teams'[k].line_bonus_taken[c] >= teams[k].line_bonus_taken[c]

\* C24: between resets no call lowers a team's score, mission_count,
\* throw_granted_by_score, category counts or line_bonus_taken counts;
\* category counts are never negative; set_bonus_taken is 0 or 1 and never
\* goes back from 1 to 0.
C24_CountersNeverDecrease == [](CountersInRange) /\ [][CountersStep]_vars

\* C24 witness: an activity was recorded for a team that had taken the set
\* bonus and a line bonus before
C24_Witness ==
  /\ variant = "B" /\ result.op = "record_activity" /\ result.ok
  /\ Len(teams) = 1
  /\ teams[1].set_bonus_taken = 1 /\ teams[1].mission_count = 6
  /\ teams[1].category_count["talk"] = 3 /\ teams[1].line_bonus_taken["talk"] = 1
  /\ teams[1].throw_granted_by_score = teams[1].score \div 40

\* the fields of a team the two variants have in common
Scoring(t) ==
  [ id |-> t.id, name |-> t.name, score |-> t.score,
    mission_count |-> t.mission_count, category_count |-> t.category_count,
    set_bonus_taken |-> t.set_bonus_taken, line_bonus_taken |-> t.line_bonus_taken ]

ScoringOf(ts) == [k \in 1..Len(ts) |-> Scoring(ts[k])]

\* the game of variant A that the same calls have led to: the same teams
\* with the fields of variant A
SameGameOfA ==
  [teams |-> ScoringOf(teams), logs |-> logs, finish_order |-> <<>>, store |-> NoStore]

\* the two results agree: same success or failure, same message, same teams
\* up to the fields of the race
SameOutcome(a, b) ==
  /\ a.ok = b.ok
  /\ a.msg = b.msg
  /\ ScoringOf(a.world.teams) = ScoringOf(b.world.teams)

\* C25: from games with the same teams, every add_team and every
\* record_activity call, valid or not, returns the same success or failure
\* in variant A and in variant B and leaves the same score, mission_count,
\* category_count, set_bonus_taken and line_bonus_taken in every team; both
\* start with no team, so this holds after every sequence of such calls.
C25_SameScoringEngine ==
  variant = "B" =>
    /\ \A name \in ClaimNames : \A id \in _new_id(teams) :
         SameOutcome(A_add_team(SameGameOfA, name, id), add_team(World, name, id))
    /\ \A team_id \in TeamIds :
         \A difficulty \in ClaimDifficulties, category \in ClaimCategories,
            participant_count \in ClaimParticipants :
           SameOutcome(
             A_record_activity(SameGameOfA, team_id, difficulty, category,
                               participant_count),
             record_activity(World, team_id, difficulty, category, participant_count))

\* C25 witness: a team of variant B with three categories done and two
\* talks, with which both variants pay the set bonus for a challenge of 5
\* and the line bonus for a talk
C25_Witness ==
  /\ variant = "B" /\ result.op = "record_activity" /\ result.ok
  /\ Len(teams) = 1 /\ teams[1].set_bonus_taken = 0
  /\ teams[1].category_count =
       [talk |-> 2, teamplay |-> 1, help |-> 1, challenge |-> 0]
  /\ LET a == A_record_activity(SameGameOfA, teams[1].id, "hard", "challenge", 5)
         b == record_activity(World, teams[1].id, "hard", "challenge", 5)
         c == A_record_activity(SameGameOfA, teams[1].id, "easy", "talk", 1)
     IN  /\ a.ok /\ b.ok
         /\ a.world.teams[1].set_bonus_taken = 1
         /\ a.world.teams[1].score = teams[1].score + 100 + 40
         /\ b.world.teams[1].score = a.world.teams[1].score
         /\ c.world.teams[1].line_bonus_taken["talk"] = 1

\* what the calls of the running variant return, from the current state
ClaimCalls ==
  IF variant = "A"
  THEN    {A_add_team(World, name, id) : name \in ClaimNames, id \in A_new_id(teams)}
     \cup {A_record_activity(World, team_id, a[1], a[2], a[3]) :
             team_id \in TeamIds, a \in ClaimRaceActivities \cup {<<"hard", "rest", 1>>}}
     \cup {A_reset(World)}
  ELSE    {add_team(World, name, id) : name \in ClaimNames, id \in _new_id(teams)}
     \cup {record_activity(World, team_id, a[1], a[2], a[3]) :
             team_id \in TeamIds, a \in ClaimRaceActivities \cup {<<"hard", "rest", 1>>}}
     \cup {throw_yut(World, team_id, yut) : team_id \in TeamIds, yut \in draw_yut}
     \cup {reset(World)}

\* STORAGE_FILE of world w holds the teams, the logs and the finish_order of w
Persisted(w) ==
  /\ w.store.exists
  /\ w.store.teams = w.teams
  /\ w.store.logs = w.logs
  /\ variant = "B" => w.store.finish_order = w.finish_order

\* C26: a successful add_team, record_activity, throw_yut or reset leaves in
\* STORAGE_FILE the teams, logs and finish_order the game has at return, all
\* log entries of the call included; a failed call leaves the file and the
\* game as they were; so the file read back is the game in memory after
\* every call.
C26_PersistedAtReturn ==
  /\ \A r \in ClaimCalls :
       /\ r.ok => Persisted(r.world)
       /\ ~r.ok => r.world = World
  /\ result.op \in {"add_team", "record_activity", "throw_yut", "reset"} /\ result.ok
       => Persisted(World)
  /\ Loaded.teams = teams
  /\ Loaded.logs = logs
  /\ Loaded.finish_order = finish_order

\* C26 witness: B has drawn gae and captured A, three log entries in one
\* call, and the file holds the game at return
C26_Witness ==
  /\ variant = "B"
  /\ result.op = "throw_yut" /\ result.ok /\ result.key = "gae"
  /\ teams[1].position = 40 /\ teams[2].position = 47
  /\ Len(logs) = 150 /\ logs[1].at = 151
  /\ store.logs = logs /\ store.teams = teams /\ store.finish_order = finish_order

\* <<difficulty, category, participant_count>> of the calls of C27
ClaimFrameActivities == {"easy", "hard"} \X {"talk", "teamplay", "help", "challenge"} \X {1, 3}

\* C27: a successful record_activity on a team changes no field of any other
\* team (counting a category for one team changes no other team's counts or
\* bonuses), adds and removes no team, changes no team's position or
\* finished_at, and leaves finish_order as it was.
C27_ActivityTouchesOneTeam ==
  \A team_id \in TeamIds : \A a \in ClaimFrameActivities :
    LET r == RecordCall(team_id, a[1], a[2], a[3])
        i == Target(team_id)
    IN  r.ok =>
          /\ i \in 1..Len(teams)
          /\ Len(r.world.teams) = Len(teams)
          /\ \A k \in 1..Len(teams) : k # i => r.world.teams[k] = teams[k]
          /\ r.world.teams[i].id = teams[i].id
          /\ r.world.teams[i].name = teams[i].name
          /\ r.world.teams[i].category_count[a[2]] = teams[i].category_count[a[2]] + 1
          /\ variant = "B" =>
               /\ r.world.teams[i].position = teams[i].position
               /\ r.world.teams[i].finished_at = teams[i].finished_at
          /\ r.world.finish_order = finish_order

\* C27 witness: of three teams of variant B the second has recorded two
\* activities, and the others have the counts and the score they were
\* registered with
C27_Witness ==
  /\ variant = "B" /\ result.op = "record_activity" /\ result.ok
  /\ Len(teams) = 3
  /\ teams[2].mission_count = 2 /\ teams[2].category_count["talk"] = 2
  /\ \A k \in {1, 3} :
       /\ teams[k].score = 0 /\ teams[k].mission_count = 0
       /\ \A c \in CategorySet :
            teams[k].category_count[c] = 0 /\ teams[k].line_bonus_taken[c] = 0

\* C28: after every call, every team has line_bonus_taken[c] equal to
\* floor(category_count[c] / 3) for each category c, and set_bonus_taken is
\* 1 exactly when all four category counts are positive.
C28_BonusesFollowCounts ==
  \A k \in 1..Len(teams) :
    /\ \A c \in {"talk", "teamplay", "help", "challenge"} :
         teams[k].line_bonus_taken[c] = teams[k].category_count[c] \div 3
    /\ teams[k].set_bonus_taken = 1 <=> AllPositive(teams[k])

\* C28 witness: a team of variant A with the set complete and a line of
\* three talks
C28_Witness ==
  /\ variant = "A" /\ result.op = "record_activity" /\ result.ok
  /\ Len(teams) = 1
  /\ teams[1].category_count = [talk |-> 3, teamplay |-> 1, help |-> 1, challenge |-> 1]
  /\ teams[1].set_bonus_taken = 1
  /\ teams[1].line_bonus_taken = [talk |-> 1, teamplay |-> 0, help |-> 0, challenge |-> 0]

\* C29: in every reachable state, the mission_count of every team is the
\* sum of its four category counts.
C29_MissionsAreCategoryCounts ==
  \A k \in 1..Len(teams) :
    teams[k].mission_count
      = teams[k].category_count["talk"] + teams[k].category_count["teamplay"]
        + teams[k].category_count["help"] + teams[k].category_count["challenge"]

\* C29 witness: a team of variant B with six activities over the four
\* categories
C29_Witness ==
  /\ variant = "B" /\ result.op = "record_activity" /\ result.ok
  /\ Len(teams) = 1 /\ teams[1].mission_count = 6
  /\ teams[1].category_count = [talk |-> 2, teamplay |-> 2, help |-> 1, challenge |-> 1]

\* the fields of a team that only record_activity writes
ActivityFields(t) ==
  <<t.mission_count, t.category_count, t.set_bonus_taken, t.line_bonus_taken>>

\* C30: a successful throw_yut changes only the mover and the unfinished
\* teams on the mover's new cell: every other team keeps all its fields,
\* also a team on the checkpoint cell a captured team is sent back to (no
\* chained capture); a team on the mover's new cell changes at most in its
\* position; and no team, the mover included, changes in mission_count,
\* category_count, set_bonus_taken or line_bonus_taken.
C30_ThrowTouchesMoverAndCaptured ==
  \A team_id \in TeamIds :
    variant = "B" /\ CanThrow(team_id) =>
      \A yut \in draw_yut :
        LET i == Target(team_id)
            r == throw_yut(World, team_id, yut)
            w == r.world
            p == w.teams[i].position
        IN  /\ r.ok
            /\ Len(w.teams) = Len(teams)
            /\ \A k \in 1..Len(teams) :
                 /\ ActivityFields(w.teams[k]) = ActivityFields(teams[k])
                 /\ w.teams[k].id = teams[k].id /\ w.teams[k].name = teams[k].name
                 /\ k # i =>
                      IF teams[k].finished_at = None /\ teams[k].position = p
                      THEN w.teams[k] = [teams[k] EXCEPT !.position = w.teams[k].position]
                      ELSE w.teams[k] = teams[k]

\* C30 witness: C drew do on cell 10 and captured B on cell 11; B is back on
\* cell 10, where A stands: A and B have the score they had
C30_Witness ==
  /\ result.op = "throw_yut" /\ result.ok /\ result.key = "do"
  /\ Len(teams) = 3
  /\ teams[3].position = 11 /\ teams[3].score = 100
  /\ teams[2].position = 10 /\ teams[2].score = 40 /\ teams[2].throw_chance = 0
  /\ teams[1].position = 10 /\ teams[1].score = 40 /\ teams[1].throw_chance = 0

\* the unfinished teams of world w, other than w.teams[i] and with another
\* id, that stand on cell p
OtherTeamsOn(w, i, p) ==
  {k \in 1..Len(w.teams) :
     /\ k # i /\ w.teams[k].id # w.teams[i].id
     /\ w.teams[k].finished_at = None /\ w.teams[k].position = p}

\* C31 as stated: after a successful non-finishing throw_yut that lands the
\* mover on a cell p with 0 < p < 50, no other unfinished team is on cell p:
\* every captured team is on a cell strictly lower than p.
C31_CapturedLeaveTheCell ==
  \A team_id \in TeamIds :
    variant = "B" /\ CanThrow(team_id) =>
      \A yut \in draw_yut :
        LET i == Target(team_id)
            w == throw_yut(World, team_id, yut).world
            p == w.teams[i].position
        IN  (w.teams[i].finished_at = None /\ 0 < p /\ p < 50) =>
              /\ OtherTeamsOn(w, i, p) = {}
              /\ \A k \in OtherTeamsOn(World, i, p) : w.teams[k].position < p

\* C31 amended: after a successful non-finishing throw_yut that lands the
\* mover on a cell p with 0 < p < 50, every captured team (unfinished, with
\* another id, on cell p before the throw) is on the checkpoint at or before
\* p, floor(p / 10) * 10, and no team has come to cell p but the mover: the
\* other unfinished teams on cell p are none when p is not a multiple of
\* 10, and are all the captured teams when p is a multiple of 10.
C31_CapturedOnCheckpointAtOrBefore ==
  \A team_id \in TeamIds :
    variant = "B" /\ CanThrow(team_id) =>
      \A yut \in draw_yut :
        LET i == Target(team_id)
            w == throw_yut(World, team_id, yut).world
            p == w.teams[i].position
        IN  (w.teams[i].finished_at = None /\ 0 < p /\ p < 50) =>
              /\ \A k \in OtherTeamsOn(World, i, p) :
                   /\ w.teams[k].position = (p \div 10) * 10
                   /\ w.teams[k].position <= p
                   /\ w.teams[k].position < p <=> p % 10 # 0
              /\ OtherTeamsOn(w, i, p)
                   = IF p % 10 = 0 THEN OtherTeamsOn(World, i, p) ELSE {}

\* C31 witness: B, on cell 11, drew backdo and captured A and C on cell 10,
\* a checkpoint: the three teams stand on cell 10
C31_Witness ==
  /\ variant = "B" /\ result.op = "throw_yut" /\ result.ok /\ result.key = "backdo"
  /\ Len(teams) = 3
  /\ teams[2].position = 10 /\ teams[2].finished_at = None
  /\ teams[2].score > teams[1].score + 30 /\ teams[2].score > teams[3].score + 30
  /\ OtherTeamsOn(World, 2, 10) = {1, 3}

\* every successful throw of the team whose outcome is not backdo takes it
\* forward by the step, to cell 50 at most
NonBackdoAdvances ==
  CanThrow(teams[1].id) =>
    \A yut \in draw_yut :
      yut.key # "backdo" =>
        LET r == throw_yut(World, teams[1].id, yut)
            t == r.world.teams[1]
        IN  /\ r.ok
            /\ t.position > teams[1].position
            /\ t.position = Min(FINISH_POS, teams[1].position + yut.step)
            /\ Finished(t) <=> t.position = FINISH_POS

\* a call of throw_yut for the finished team fails and leaves the team as it is
FinishedThrowFails ==
  (Finished(teams[1]) /\ result'.op = "throw_yut") =>
    ~result'.ok /\ teams' = teams /\ finish_order' = finish_order

\* every step of a call that passes its validation is a step the fairness
\* conditions of SpecRace count, and it changes the log
CallsAreTaken ==
  /\ (RaceThrowEnabled /\ result'.op = "throw_yut") => ThrowTaken /\ logs' # logs
  /\ (RaceActivityEnabled /\ result'.op = "record_activity")
       => ActivityTaken /\ logs' # logs
  /\ (~RaceThrowEnabled /\ result'.op = "throw_yut") => ~result'.ok

\* C32: a successful throw whose outcome is not backdo strictly increases
\* the mover's position, by the step and to cell 50 at most; in a game of a
\* single team where record_activity and throw_yut are taken whenever they
\* stay enabled and backdo is drawn finitely often, the team eventually is
\* finished; and from then on throw_yut is never enabled for it: the team
\* stays finished and every throw_yut call for it fails.
C32_RaceProgress ==
  /\ [](NonBackdoAdvances)
  /\ <>(Finished(teams[1]))
  /\ [](Finished(teams[1]) => [](Finished(teams[1]) /\ ~CanThrow(teams[1].id)))
  /\ [][FinishedThrowFails]_vars
  /\ [][CallsAreTaken]_vars

\* C32 witness: the team has finished by a throw and was then refused a
\* throw it held a chance for
C32_Witness ==
  /\ variant = "B" /\ Len(teams) = 1
  /\ Finished(teams[1]) /\ teams[1].position = FINISH_POS
  /\ teams[1].throw_chance > 0
  /\ result.op = "throw_yut" /\ ~result.ok
  /\ finish_order = <<teams[1].id>>

====
